---- MODULE Spec2Model ----
(***************************************************************************)
(* Position state machine and order-lifecycle reconciliation of the        *)
(* futures trading bot (src/CoinbaseMain.py).                              *)
(*                                                                         *)
(* One run of the script is the sequence                                   *)
(*   load_positions -> position reconciliation -> manage_positions         *)
(*   (check_stop_target, signal handling, execute_trade) -> save_positions *)
(*   -> send_to_discord.                                                   *)
(* Every broker call is one step; its outcome (success, failure, raised    *)
(* exception, fill or rest) is chosen by the broker.  Between two runs     *)
(* the exchange may fill resting orders or the position may be closed      *)
(* from outside.                                                           *)
(*                                                                         *)
(* Prices are whole dollars.  profit_loss and unrealized_pnl are kept in   *)
(* units of CONTRACT_MULTIPLIER dollars (0.1 USD), so that                 *)
(* (price - entry) * CONTRACTS_PER_TRADE * CONTRACT_MULTIPLIER is the      *)
(* integer (price - entry) * CONTRACTS_PER_TRADE.                          *)
(* Time is counted in runs: the run started at time t sees the candles     *)
(* that started at t-2 and t-1, and a position opened by it has            *)
(* entry_time t.                                                           *)
(***************************************************************************)
EXTENDS Integers, Sequences, FiniteSets, TLC

\* ------------------------------------------------------------------------
\* Bounds of the model
\* ------------------------------------------------------------------------
MaxRuns == 2
MaxOrders == 7
MaxNet == 1

\* ------------------------------------------------------------------------
\* Configuration (module-level constants of CoinbaseMain.py)
\* ------------------------------------------------------------------------
CONTRACTS_PER_TRADE == 1
ORDER_TYPE == "limit"
\* MIN_DISTANCE_PERCENT = 0.40 and MAX_DISTANCE_PERCENT = 2.90, in
\* hundredths of a percent
MIN_DISTANCE_PERCENT == 40
MAX_DISTANCE_PERCENT == 290
\* $2 buffer between the stop trigger and the limit of a stop order
STOP_LIMIT_BUFFER == 2

\* Python None of a numeric or order-id field (all real values are >= 0,
\* and every P/L of the model is a multiple of 5)
Null == -1

\* Python truthiness of a number-or-None value
Truthy(x) == x # Null /\ x # 0

Abs(x) == IF x < 0 THEN 0 - x ELSE x

\* ------------------------------------------------------------------------
\* Inputs
\* ------------------------------------------------------------------------
\* close of the latest candle (current_price)
Prices == {4300}
\* (high, low) of a one-minute candle
CandleShapes == { <<4315, 4295>>, <<4335, 4295>>, <<4315, 4265>>, <<4335, 4265>> }
\* prices at which a position is opened outside the bot
ExternalPrices == {4305}
\* unrealized P/L values the broker reports for an open position
BrokerPnls == {15}

\* trade_data of a run: hold carries null levels (prompt: "For hold: set
\* stop_loss and take_profit to null"); a buy or a sell carries levels on
\* the right side of the price, on the wrong side, or none
Signal(a, stop, target) == [action |-> a, stop_loss |-> stop, take_profit |-> target]
Signals ==
    { Signal("hold", Null, Null),
      Signal("buy", 4270, 4330), Signal("sell", 4330, 4270),
      Signal("buy", 4330, 4270), Signal("sell", Null, 4270) }

\* what the LLM answers: JSON with "analysis" and "trade_data", JSON with
\* "action" at the top, prose with a JSON object in it, or prose alone
Responses ==
    { [ format |-> f, trade_data |-> td ] :
        f \in {"nested", "flat", "embedded"}, td \in Signals }
    \cup { [ format |-> "prose" ] }

\* trade_data is None
NoTradeData == [ action |-> "None" ]

\* parse_llm_response: the trade data of the three formats, None when no
\* JSON object with an action is found
parse_llm_response(response) ==
    IF response.format \in {"nested", "flat", "embedded"}
    THEN response.trade_data ELSE NoTradeData

\* variant: an answer that cannot be parsed counts as a buy
FallbackBuy ==
    [ action |-> "buy", stop_loss |-> 4270, take_profit |-> 4330, confidence |-> 0 ]

\* the trade data analyze_with_llm substitutes when parsing failed
FallbackSignal ==
    [ action |-> "hold", stop_loss |-> Null, take_profit |-> Null, confidence |-> 0 ]

analyze_with_llm(response) ==
    LET td == parse_llm_response(response) IN
    IF td = NoTradeData THEN FallbackSignal ELSE td

\* new_signal of manage_positions
new_signal(td) == IF td = NoTradeData THEN "hold" ELSE td.action

\* the two candles a run scans, oldest first; the last close is current_price
CandleSeqs(t, price) ==
    { << [timestamp |-> t - 2, high |-> a[1], low |-> a[2]],
         [timestamp |-> t - 1, high |-> b[1], low |-> b[2]] >> :
      a \in CandleShapes, b \in {s \in CandleShapes : s[2] <= price /\ price <= s[1]} }

\* volume column of the last ten candles
HighVolume(k) == [i \in 1..10 |-> IF i <= k THEN 150 ELSE 10]
VolumeSeries == { HighVolume(7), HighVolume(6), [i \in 1..10 |-> 30] }

\* ------------------------------------------------------------------------
\* Position store (positions.json)
\* ------------------------------------------------------------------------
ClearedPosition ==
    [ status |-> "none", entry_price |-> Null, entry_time |-> Null,
      stop_loss |-> Null, take_profit |-> Null, entry_order_id |-> Null,
      stop_loss_order_id |-> Null, take_profit_order_id |-> Null,
      unrealized_pnl |-> Null ]

default_state ==
    [ current_position |-> ClearedPosition, last_signal |-> "hold",
      trade_history |-> << >>, total_trades |-> 0,
      winning_trades |-> 0, losing_trades |-> 0 ]

\* ------------------------------------------------------------------------
\* Broker: resting and past orders, net position
\* ------------------------------------------------------------------------
NewOrder(kind, side, price, status) ==
    [ kind |-> kind, side |-> side, price |-> price, status |-> status,
      fill |-> IF status = "FILLED" THEN price ELSE Null ]

\* client.cancel_orders: every listed order still OPEN becomes CANCELLED
CancelOrders(ords, ids) ==
    [ i \in DOMAIN ords |->
        IF i \in ids /\ ords[i].status = "OPEN"
        THEN [ords[i] EXCEPT !.status = "CANCELLED"] ELSE ords[i] ]

\* cancel_pending_orders(client, order_ids): nothing is sent for an empty
\* list, and an exception of client.cancel_orders is swallowed
cancel_pending_orders(ords, ids, ok) ==
    IF ids = {} THEN ords
    ELSE IF ok THEN CancelOrders(ords, ids) ELSE ords

\* variant: an error while cancelling ends the run
AbortOnCancelError(next, ok) == IF ok THEN next ELSE "idle"

\* where the run goes after a cancellation: the except clause of
\* cancel_pending_orders and of cancel_all_open_orders prints the error and
\* returns, so the caller goes on as after a cancellation that worked
AfterCancel(next, ok) == next

\* client.list_orders(order_status=["OPEN"])
OpenOrderIds(ords) == { i \in DOMAIN ords : ords[i].status = "OPEN" }

\* net contracts after an order of the given side fills
NetAfter(net, side) ==
    IF side = "BUY" THEN net + CONTRACTS_PER_TRADE ELSE net - CONTRACTS_PER_TRADE

\* entry_vwap of the position after a fill at price p
VwapAfter(net, vwap, side, p) ==
    LET n2 == NetAfter(net, side) IN
    IF n2 = 0 THEN 0
    ELSE IF net = 0 THEN p
    ELSE IF Abs(n2) > Abs(net) THEN (vwap * Abs(net) + p * CONTRACTS_PER_TRADE) \div Abs(n2)
    ELSE vwap


\* ------------------------------------------------------------------------
\* Stop/target scanner
\* ------------------------------------------------------------------------
NoHit == [ should_close |-> FALSE, reason |-> "none", exit_price |-> Null,
           orders_to_cancel |-> {} ]

\* variant: no order id is ever handed on for cancellation
OrderIdListEmpty(id) == {}

OrderIdList(id) == IF id # Null THEN {id} ELSE {}

\* variant: within a candle the stop is looked at before the target
CandleHitStopFirst(pos, candle) ==
    LET target_hit == [ should_close |-> TRUE, reason |-> "target_hit",
                        exit_price |-> pos.take_profit,
                        orders_to_cancel |-> OrderIdList(pos.stop_loss_order_id) ]
        stop_hit == [ should_close |-> TRUE, reason |-> "stop_hit",
                      exit_price |-> pos.stop_loss,
                      orders_to_cancel |-> OrderIdList(pos.take_profit_order_id) ]
    IN  IF pos.status = "long"
        THEN IF Truthy(pos.stop_loss) /\ candle.low <= pos.stop_loss THEN stop_hit
             ELSE IF Truthy(pos.take_profit) /\ candle.high >= pos.take_profit THEN target_hit
             ELSE NoHit
        ELSE IF pos.status = "short"
        THEN IF Truthy(pos.stop_loss) /\ candle.high >= pos.stop_loss THEN stop_hit
             ELSE IF Truthy(pos.take_profit) /\ candle.low <= pos.take_profit THEN target_hit
             ELSE NoHit
        ELSE NoHit

\* outcome of one candle for an open position, NoHit if no level is crossed
CandleHit(pos, candle) ==
    LET target_hit == [ should_close |-> TRUE, reason |-> "target_hit",
                        exit_price |-> pos.take_profit,
                        orders_to_cancel |-> OrderIdList(pos.stop_loss_order_id) ]
        stop_hit == [ should_close |-> TRUE, reason |-> "stop_hit",
                      exit_price |-> pos.stop_loss,
                      orders_to_cancel |-> OrderIdList(pos.take_profit_order_id) ]
    IN  IF pos.status = "long"
        THEN IF Truthy(pos.take_profit) /\ candle.high >= pos.take_profit THEN target_hit
             ELSE IF Truthy(pos.stop_loss) /\ candle.low <= pos.stop_loss THEN stop_hit
             ELSE NoHit
        ELSE IF pos.status = "short"
        THEN IF Truthy(pos.take_profit) /\ candle.low <= pos.take_profit THEN target_hit
             ELSE IF Truthy(pos.stop_loss) /\ candle.high >= pos.stop_loss THEN stop_hit
             ELSE NoHit
        ELSE NoHit

\* variant: the candles are not filtered by the entry time
AllCandles(pos, candles) == candles

\* relevant_candles: the candles at or after the entry
RelevantCandles(pos, candles) ==
    SelectSeq(candles, LAMBDA c : c.timestamp >= pos.entry_time)

RECURSIVE FirstHit(_, _)
FirstHit(pos, cs) ==
    IF cs = << >> THEN NoHit
    ELSE IF CandleHit(pos, Head(cs)).should_close THEN CandleHit(pos, Head(cs))
    ELSE FirstHit(pos, Tail(cs))

\* check_stop_target(positions_data, csv_data), for a position whose
\* entry_time parses
check_stop_target(pos, candles) ==
    IF pos.status = "none" THEN NoHit
    ELSE FirstHit(pos, RelevantCandles(pos, candles))

\* ------------------------------------------------------------------------
\* Level validator and volume filter
\* ------------------------------------------------------------------------
\* (distance / entry) * 100 is computed in double-precision floating point.
\* For whole-dollar distances and prices the rounded value compares with a
\* bound like the exact quotient, except when the quotient is the bound
\* itself: (29 / 1000) * 100 evaluates to 2.9000000000000004, which is above
\* the literal 2.90, while (4 / 1000) * 100, (1 / 1000) * 100 and
\* (5 / 1000) * 100 evaluate to the literals 0.4, 0.1 and 0.5.
\* Bounds are in hundredths of a percent.
RoundsAbove == {290}

\* variant: no distance is ever below the minimum
PercentageNeverBelow(distance, entry, bound) == FALSE

PercentageBelow(distance, entry, bound) == distance * 10000 < bound * entry

PercentageAbove(distance, entry, bound) ==
    \/ distance * 10000 > bound * entry
    \/ distance * 10000 = bound * entry /\ bound \in RoundsAbove

\* validate_trade_levels(trade_data, current_price): [valid, error]
validate_trade_levels(td, price) ==
    LET stop == td.stop_loss
        target == td.take_profit
        stop_distance == Abs(price - stop)
        target_distance == Abs(price - target)
        Bad(e) == [valid |-> FALSE, error |-> e]
    IN  IF td.action = "hold" THEN [valid |-> TRUE, error |-> "none"]
        ELSE IF stop = Null \/ target = Null THEN Bad("missing_levels")
        \* stop_percentage = stop_distance / entry * 100
        ELSE IF PercentageBelow(stop_distance, price, MIN_DISTANCE_PERCENT)
             THEN Bad("stop_too_tight")
        ELSE IF PercentageAbove(stop_distance, price, MAX_DISTANCE_PERCENT)
             THEN Bad("stop_too_wide")
        ELSE IF PercentageBelow(target_distance, price, MIN_DISTANCE_PERCENT)
             THEN Bad("target_too_close")
        ELSE IF PercentageAbove(target_distance, price, MAX_DISTANCE_PERCENT)
             THEN Bad("target_too_far")
        \* rr_ratio = target_distance / stop_distance (0 if stop_distance = 0)
        ELSE IF (IF stop_distance > 0 THEN 2 * target_distance < stop_distance ELSE TRUE)
             THEN Bad("rr_too_low")
        ELSE IF stop_distance > 0 /\ target_distance > 3 * stop_distance THEN Bad("rr_too_high")
        ELSE IF td.action = "buy" /\ stop >= price THEN Bad("long_stop_not_below")
        ELSE IF td.action = "buy" /\ target <= price THEN Bad("long_target_not_above")
        ELSE IF td.action = "sell" /\ target >= price THEN Bad("short_target_not_below")
        ELSE IF td.action = "sell" /\ stop <= price THEN Bad("short_stop_not_above")
        ELSE [valid |-> TRUE, error |-> "none"]

RECURSIVE SumSeq(_)
SumSeq(s) == IF s = << >> THEN 0 ELSE Head(s) + SumSeq(Tail(s))

\* check_volume_conditions(csv_data) on the volume column of the last ten
\* candles: average > 100 and at least 7 candles above 20
check_volume_conditions(volumes) ==
    LET avg_check == Len(volumes) > 0 /\ SumSeq(volumes) > 100 * Len(volumes)
        high_volume_count == Cardinality({i \in DOMAIN volumes : volumes[i] > 20})
    IN  avg_check /\ high_volume_count >= 7

\* ------------------------------------------------------------------------
\* Trade accounting
\* ------------------------------------------------------------------------
\* profit_loss of closing a long (short) entered at entry and left at exit
ProfitLoss(type, entry, exit) ==
    IF type = "long" THEN (exit - entry) * CONTRACTS_PER_TRADE
    ELSE (entry - exit) * CONTRACTS_PER_TRADE

\* "note": f"Closed {reason} (desync detected)", a key only the records
\* of the reconciliation carry
DesyncNote(reason) == << "desync", reason >>
NoNote == << >>

TradeRecord(type, entry, exit, entry_time, exit_time, note) ==
    [ type |-> type, entry_price |-> entry, exit_price |-> exit,
      profit_loss |-> ProfitLoss(type, entry, exit),
      entry_time |-> entry_time, exit_time |-> exit_time, note |-> note ]

\* variant: the record is written to the history twice
RecordTradeTwice(store, rec) ==
    [ store EXCEPT
        !.trade_history = Append(Append(@, rec), rec),
        !.total_trades = @ + 1,
        !.winning_trades = IF rec.profit_loss > 0 THEN @ + 1 ELSE @,
        !.losing_trades = IF rec.profit_loss > 0 THEN @ ELSE @ + 1 ]

\* variant: a trade that breaks even counts neither as won nor as lost
RecordTradeBreakEvenUncounted(store, rec) ==
    [ store EXCEPT
        !.trade_history = Append(@, rec),
        !.total_trades = @ + 1,
        !.winning_trades = IF rec.profit_loss > 0 THEN @ + 1 ELSE @,
        !.losing_trades = IF rec.profit_loss < 0 THEN @ + 1 ELSE @ ]

\* append a record and update total_trades / winning_trades / losing_trades
RecordTrade(store, rec) ==
    [ store EXCEPT
        !.trade_history = Append(@, rec),
        !.total_trades = @ + 1,
        !.winning_trades = IF rec.profit_loss > 0 THEN @ + 1 ELSE @,
        !.losing_trades = IF rec.profit_loss > 0 THEN @ ELSE @ + 1 ]


\* ------------------------------------------------------------------------
\* State
\* ------------------------------------------------------------------------
VARIABLES
    disk,            \* store held by positions.json
    diskState,       \* "absent", "ok", or "partial" (a write that died midway)
    mem,             \* positions_data of the running script
    pc,              \* position of the running script, "idle" between runs
    now,             \* number of runs started (time)
    current_price,   \* close of the latest candle
    trade_results,   \* results collected by the run
    result,          \* result dict built by execute_trade
    current_status,  \* local of manage_positions
    scan,            \* what check_stop_target returned in this run
    trade_data,      \* signal of the run
    et,              \* arguments of the running execute_trade, and where it returns
    orders,          \* broker: every order placed, by order id
    brokerNet,       \* broker: net contracts held (> 0 long, < 0 short)
    brokerVwap,      \* broker: entry_vwap of the position
    log,             \* broker and file calls made by the run, in order
    call,            \* a function called on its own: its name and arguments
    ret              \* what that call returned

vars == << disk, diskState, mem, pc, now, current_price, trade_results, result,
           current_status, scan, trade_data, et, orders, brokerNet, brokerVwap, log,
           call, ret >>

NoResult == [ success |-> FALSE, order_id |-> Null, tags |-> {}, profit_loss |-> 0 ]
Msg(ok, tags) == [ success |-> ok, order_id |-> Null, tags |-> tags, profit_loss |-> 0 ]
NoTrade == [ action |-> "none", price |-> Null, stop_loss |-> Null,
             take_profit |-> Null, ret |-> "none" ]
HoldSignal == Signal("hold", Null, Null)

\* one call to the broker or to the file system
Ev(op, arg, ok) == [ op |-> op, arg |-> arg, ok |-> ok ]

NoCall == [ fn |-> "none" ]

\* the state before the first run
FirstStart ==
    /\ disk = default_state
    /\ diskState = "absent"
    /\ mem = default_state
    /\ pc = "idle"
    /\ now = 0
    /\ current_price = Null
    /\ trade_results = << >>
    /\ result = NoResult
    /\ current_status = "none"
    /\ scan = NoHit
    /\ trade_data = HoldSignal
    /\ et = NoTrade
    /\ orders = << >>
    /\ brokerNet = 0
    /\ brokerVwap = 0
    /\ log = << >>

Init ==
    /\ FirstStart
    /\ call = NoCall
    /\ ret = NoCall

\* the process ends (normally or by an uncaught exception): locals are gone
EndOfProcess ==
    /\ pc' = "idle"
    /\ mem' = default_state
    /\ current_price' = Null
    /\ trade_results' = << >>
    /\ result' = NoResult
    /\ current_status' = "none"
    /\ scan' = NoHit
    /\ trade_data' = HoldSignal
    /\ et' = NoTrade
    /\ log' = << >>

\* ------------------------------------------------------------------------
\* load_positions and the price fetch
\* ------------------------------------------------------------------------
load_positions(state, file) == IF state = "absent" THEN default_state ELSE file

StartRun ==
    /\ pc = "idle" /\ now < MaxRuns /\ diskState # "partial"
    /\ now' = now + 1
    /\ mem' = load_positions(diskState, disk)
    /\ disk' = load_positions(diskState, disk)
    /\ diskState' = "ok"
    /\ \E p \in Prices : current_price' = p
    /\ log' = << Ev("load_positions", "none", TRUE) >>
    /\ pc' = "reconcile"
    /\ UNCHANGED << trade_results, result, current_status, scan, trade_data, et,
                    orders, brokerNet, brokerVwap >>
    /\ UNCHANGED << call, ret >>

\* json.load raises on a file that is not parseable: the run dies at once
LoadFail ==
    /\ pc = "idle" /\ now < MaxRuns /\ diskState = "partial"
    /\ now' = now + 1
    /\ UNCHANGED << disk, diskState, mem, pc, current_price, trade_results, result,
                    current_status, scan, trade_data, et, orders, brokerNet,
                    brokerVwap, log >>
    /\ UNCHANGED << call, ret >>

\* ------------------------------------------------------------------------
\* Position reconciliation (__main__)
\* ------------------------------------------------------------------------
\* variant: an API error is reported as "no position"
PositionErrorAsFlat(ok, net, entry, pnl) ==
    IF ok /\ net # 0
    THEN [ exists |-> "true", side |-> IF net > 0 THEN "LONG" ELSE "SHORT",
           entry_price |-> entry, unrealized_pnl |-> pnl ]
    ELSE [ exists |-> "false", side |-> "none", entry_price |-> 0, unrealized_pnl |-> 0 ]

\* get_current_futures_position: exists is "null" on an API error
get_current_futures_position(ok, net, entry, pnl) ==
    IF ~ok THEN [ exists |-> "null", side |-> "none", entry_price |-> 0, unrealized_pnl |-> 0 ]
    ELSE IF net # 0
    THEN [ exists |-> "true", side |-> IF net > 0 THEN "LONG" ELSE "SHORT",
           entry_price |-> entry, unrealized_pnl |-> pnl ]
    ELSE [ exists |-> "false", side |-> "none", entry_price |-> 0, unrealized_pnl |-> 0 ]

Lower(side) == IF side = "LONG" THEN "long" ELSE "short"

\* variant: the entry price the broker reports always replaces the local one
SyncPositionOverwrites(pos, real_position) ==
    [ pos EXCEPT
        !.status = Lower(real_position.side),
        !.entry_price = real_position.entry_price,
        !.unrealized_pnl = real_position.unrealized_pnl ]

\* sync of positions.json with the position the broker reports
SyncPosition(pos, real_position) ==
    [ pos EXCEPT
        !.status = Lower(real_position.side),
        !.entry_price = IF real_position.entry_price = 0 /\ Truthy(pos.entry_price)
                        THEN @ ELSE real_position.entry_price,
        !.unrealized_pnl = real_position.unrealized_pnl ]

ReconcileError ==
    /\ pc = "reconcile"
    /\ \E ok \in BOOLEAN :
         /\ get_current_futures_position(ok, brokerNet, brokerVwap, 0).exists = "null"
         /\ log' = Append(log, Ev("get_position", "null", ok))
    /\ pc' = "scan"
    /\ UNCHANGED << disk, diskState, mem, now, current_price, trade_results, result,
                    current_status, scan, trade_data, et, orders, brokerNet, brokerVwap >>
    /\ UNCHANGED << call, ret >>

ReconcileSync ==
    /\ pc = "reconcile"
    /\ \E ok \in BOOLEAN, zero \in BOOLEAN, pnl \in BrokerPnls :
         LET real_position ==
                 get_current_futures_position(ok, brokerNet,
                                              IF zero THEN 0 ELSE brokerVwap, pnl)
         IN  /\ real_position.exists = "true"
             /\ mem' = [mem EXCEPT !.current_position = SyncPosition(@, real_position)]
             /\ log' = Append(log, Ev("get_position",
                                      IF real_position.entry_price = 0
                                      THEN "true_zero" ELSE "true", ok))
    /\ pc' = "scan"
    /\ UNCHANGED << disk, diskState, now, current_price, trade_results, result,
                    current_status, scan, trade_data, et, orders, brokerNet, brokerVwap >>
    /\ UNCHANGED << call, ret >>

\* variant: the exit is taken at the trigger price of the protective order
DesyncExitAtTrigger(pos, ords, price, stopQ, tpQ) ==
    LET stop_order_id == pos.stop_loss_order_id
        tp_order_id == pos.take_profit_order_id
        stop_filled == stop_order_id # Null /\ stopQ /\ ords[stop_order_id].status = "FILLED"
        tp_filled == tp_order_id # Null /\ ~stop_filled /\ tpQ
                     /\ ords[tp_order_id].status = "FILLED"
    IN  IF stop_filled
        THEN [ exit_price |-> pos.stop_loss, reason |-> "stop_hit" ]
        ELSE IF tp_filled
        THEN [ exit_price |-> pos.take_profit, reason |-> "target_hit" ]
        ELSE [ exit_price |-> price, reason |-> "externally" ]

\* exit price and reason of a position the broker no longer holds; stopQ and
\* tpQ tell whether get_order answered for the stop and the target order
DesyncExit(pos, ords, price, stopQ, tpQ) ==
    LET stop_order_id == pos.stop_loss_order_id
        tp_order_id == pos.take_profit_order_id
        stop_filled == stop_order_id # Null /\ stopQ /\ ords[stop_order_id].status = "FILLED"
        tp_filled == tp_order_id # Null /\ ~stop_filled /\ tpQ
                     /\ ords[tp_order_id].status = "FILLED"
    IN  IF stop_filled
        THEN [ exit_price |-> ords[stop_order_id].fill, reason |-> "stop_hit" ]
        ELSE IF tp_filled
        THEN [ exit_price |-> ords[tp_order_id].fill, reason |-> "target_hit" ]
        ELSE [ exit_price |-> price, reason |-> "externally" ]

\* order ids recorded for the position
RecordedOrderIds(pos) ==
    OrderIdList(pos.entry_order_id) \cup OrderIdList(pos.stop_loss_order_id)
    \cup OrderIdList(pos.take_profit_order_id)

\* entry_was_filled: assumed unless get_order shows the entry still waiting
EntryWasFilled(pos, ords, entryQ) ==
    ~ ( /\ pos.entry_order_id # Null
        /\ entryQ
        /\ ords[pos.entry_order_id].status \in {"OPEN", "PENDING", "QUEUED"} )

\* the calls of the desync branch, in program order
DesyncCalls(pos, stopQ, tpQ, stop_filled, cancelOk, entryQ) ==
    (IF pos.stop_loss_order_id # Null THEN << Ev("get_order", "stop", stopQ) >> ELSE << >>)
    \o (IF pos.take_profit_order_id # Null /\ ~stop_filled
        THEN << Ev("get_order", "tp", tpQ) >> ELSE << >>)
    \o (IF RecordedOrderIds(pos) # {} THEN << Ev("cancel_orders", "recorded", cancelOk) >>
        ELSE << >>)
    \o (IF pos.entry_order_id # Null THEN << Ev("get_order", "entry", entryQ) >> ELSE << >>)

ReconcileFlat ==
    /\ pc = "reconcile"
    /\ \E ok \in BOOLEAN, stopQ \in BOOLEAN, tpQ \in BOOLEAN, cancelOk \in BOOLEAN,
          entryQ \in BOOLEAN :
         LET pos == mem.current_position
             local_has_pos == pos.status # "none"
             x == DesyncExit(pos, orders, current_price, stopQ, tpQ)
             order_ids == RecordedOrderIds(pos)
             ords1 == IF local_has_pos
                      THEN cancel_pending_orders(orders, order_ids, cancelOk) ELSE orders
             entry_was_filled == EntryWasFilled(pos, ords1, entryQ)
             entry == pos.entry_price
             rec == TradeRecord(pos.status, entry, x.exit_price, pos.entry_time, now,
                                DesyncNote(x.reason))
             recorded == local_has_pos /\ entry # Null /\ entry_was_filled
             never_filled == local_has_pos /\ entry # Null /\ ~entry_was_filled
             store1 == IF recorded THEN RecordTrade(mem, rec) ELSE mem
         IN  /\ get_current_futures_position(ok, brokerNet, brokerVwap, 0).exists = "false"
             /\ orders' = ords1
             /\ mem' = [store1 EXCEPT !.current_position = ClearedPosition]
             /\ trade_results' =
                  IF recorded
                  THEN Append(trade_results,
                              [ Msg(TRUE, {"desync", x.reason}) EXCEPT
                                  !.profit_loss = rec.profit_loss ])
                  ELSE IF never_filled
                  THEN Append(trade_results, Msg(TRUE, {"desync", "entry_never_filled"}))
                  ELSE trade_results
             /\ log' = log \o << Ev("get_position", "false", ok) >>
                       \o (IF local_has_pos
                           THEN DesyncCalls(pos, stopQ, tpQ, x.reason = "stop_hit",
                                            cancelOk, entryQ)
                           ELSE << >>)
             /\ pc' = AfterCancel("scan", ~local_has_pos \/ order_ids = {} \/ cancelOk)
    /\ UNCHANGED << disk, diskState, now, current_price, result, current_status, scan,
                    trade_data, et, brokerNet, brokerVwap >>
    /\ UNCHANGED << call, ret >>


\* ------------------------------------------------------------------------
\* manage_positions: stop/target scan
\* ------------------------------------------------------------------------
\* variant: a long is closed with the action that closes a short
CloseActionMirrored(status) == IF status = "long" THEN "close_short" ELSE "close_long"

CloseAction(status) == IF status = "long" THEN "close_long" ELSE "close_short"
\* variant: the direction of the signal is read the wrong way round
OpenActionSwapped(td) == IF td.action = "buy" THEN "open_short" ELSE "open_long"

OpenAction(td) == IF td.action = "buy" THEN "open_long" ELSE "open_short"
IsOpen(action) == action \in {"open_long", "open_short"}
IsClose(action) == action \in {"close_long", "close_short"}
OrderSide(action) == IF action \in {"open_long", "close_short"} THEN "BUY" ELSE "SELL"

\* parser.parse(pos["entry_time"]) raises on None: the exception is not
\* caught and the run dies before save_positions
ScanCrash ==
    /\ pc = "scan"
    /\ mem.current_position.status # "none"
    /\ mem.current_position.entry_time = Null
    /\ EndOfProcess
    /\ UNCHANGED << disk, diskState, now, orders, brokerNet, brokerVwap >>
    /\ UNCHANGED << call, ret >>

ScanStopTarget ==
    /\ pc = "scan"
    /\ ~ (mem.current_position.status # "none" /\ mem.current_position.entry_time = Null)
    /\ \E candles \in CandleSeqs(now, current_price), cancelOk \in BOOLEAN :
         LET pos == mem.current_position
             s == check_stop_target(pos, candles)
             cancels == s.should_close /\ s.orders_to_cancel # {}
         IN  /\ scan' = s
             /\ orders' = IF cancels
                          THEN cancel_pending_orders(orders, s.orders_to_cancel, cancelOk)
                          ELSE orders
             /\ log' = IF cancels
                       THEN Append(log, Ev("cancel_orders", "scan", cancelOk)) ELSE log
             /\ current_status' = IF s.should_close THEN "none" ELSE pos.status
             /\ et' = IF s.should_close
                      THEN [ action |-> CloseAction(pos.status), price |-> s.exit_price,
                             stop_loss |-> Null, take_profit |-> Null, ret |-> "signal" ]
                      ELSE et
             /\ pc' = IF s.should_close
                      THEN AfterCancel("et_place", ~cancels \/ cancelOk) ELSE "signal"
    /\ UNCHANGED << disk, diskState, mem, now, current_price, trade_results, result,
                    trade_data, brokerNet, brokerVwap >>
    /\ UNCHANGED << call, ret >>

\* ------------------------------------------------------------------------
\* execute_trade
\* ------------------------------------------------------------------------
\* what the caller appends to results: the scan close adds the reason
Returned(r) ==
    IF et.ret = "signal" THEN [r EXCEPT !.tags = @ \cup {scan.reason}] ELSE r

\* outcomes of placing the entry or closing order: rejected (or the call
\* raised), accepted and resting, accepted and filled at once
PlaceOutcomes(ords, net, side) ==
    {"fail"}
    \cup (IF Len(ords) < MaxOrders /\ ORDER_TYPE = "limit" THEN {"rest"} ELSE {})
    \cup (IF Len(ords) < MaxOrders /\ Abs(NetAfter(net, side)) <= MaxNet THEN {"fill"}
          ELSE {})

\* variant: the result of the order placement is not looked at
AfterPlaceUnchecked(trade, success) ==
    IF IsOpen(trade.action) THEN "et_stop"
    ELSE IF IsClose(trade.action) THEN "et_close"
    ELSE trade.ret

\* where execute_trade goes on after execute_real_futures_trade returned:
\* to the protective legs of an open, to the cleanup of a close, or back to
\* the caller if the order was not placed
AfterPlace(trade, success) ==
    IF success /\ IsOpen(trade.action) THEN "et_stop"
    ELSE IF success /\ IsClose(trade.action) THEN "et_close"
    ELSE trade.ret

\* execute_real_futures_trade(action, CONTRACTS_PER_TRADE, client, limit_price=price)
ExecutePlace ==
    /\ pc = "et_place"
    /\ \E outcome \in PlaceOutcomes(orders, brokerNet, OrderSide(et.action)) :
         LET side == OrderSide(et.action)
             kind == IF IsOpen(et.action) THEN "entry" ELSE "close"
             order_id == Len(orders) + 1
             failed == [NoResult EXCEPT !.tags = {"trade_failed", "broker_error"}]
             placed == [NoResult EXCEPT !.success = TRUE, !.order_id = order_id,
                                        !.tags = {et.action}]
         IN  IF outcome = "fail"
             THEN /\ log' = Append(log, Ev("place_order", kind, FALSE))
                  /\ result' = failed
                  /\ trade_results' = IF AfterPlace(et, FALSE) = et.ret
                                       THEN Append(trade_results, Returned(failed))
                                       ELSE trade_results
                  /\ pc' = AfterPlace(et, FALSE)
                  /\ UNCHANGED << mem, orders, brokerNet, brokerVwap >>
             ELSE /\ log' = Append(log, Ev("place_order", kind, TRUE))
                  /\ orders' = Append(orders,
                                      NewOrder(kind, side, et.price,
                                               IF outcome = "fill" THEN "FILLED" ELSE "OPEN"))
                  /\ brokerNet' = IF outcome = "fill" THEN NetAfter(brokerNet, side)
                                  ELSE brokerNet
                  /\ brokerVwap' = IF outcome = "fill"
                                   THEN VwapAfter(brokerNet, brokerVwap, side, et.price)
                                   ELSE brokerVwap
                  /\ result' = placed
                  /\ mem' = IF IsOpen(et.action)
                            THEN [mem EXCEPT !.current_position.entry_order_id = order_id]
                            ELSE mem
                  /\ pc' = AfterPlace(et, TRUE)
                  /\ UNCHANGED trade_results
    /\ UNCHANGED << disk, diskState, now, current_price, current_status, scan,
                    trade_data, et >>
    /\ UNCHANGED << call, ret >>

PositionType(action) == IF action = "open_long" THEN "long" ELSE "short"
\* a protective order sells to close a long and buys to close a short
ProtectSide(position_type) == IF position_type = "long" THEN "SELL" ELSE "BUY"

\* place_stop_loss_order / place_take_profit_order can succeed only while
\* the broker accepts orders
LegOutcomes(ords) == IF Len(ords) < MaxOrders THEN BOOLEAN ELSE {FALSE}

\* variant: a leg that failed is reported like a leg that was placed
LegMessageSilent(leg, ok) ==
    IF leg = "stop" THEN "stop_placed" ELSE "tp_placed"

\* message of place_stop_loss_order / place_take_profit_order, which the
\* caller adds to the result message
LegMessage(leg, ok) ==
    IF leg = "stop" THEN (IF ok THEN "stop_placed" ELSE "stop_failed")
    ELSE (IF ok THEN "tp_placed" ELSE "tp_failed")

\* what a protective leg of an open writes to the position: level and order
\* id, and only if the order was placed
WithStopLeg(pos, stop_loss, ok, order_id) ==
    IF ok THEN [pos EXCEPT !.stop_loss = stop_loss, !.stop_loss_order_id = order_id]
    ELSE pos

WithTakeProfitLeg(pos, take_profit, ok, order_id) ==
    IF ok THEN [pos EXCEPT !.take_profit = take_profit, !.take_profit_order_id = order_id]
    ELSE pos

\* stop-loss leg of an open
ExecuteStop ==
    /\ pc = "et_stop"
    /\ IF Truthy(et.stop_loss)
       THEN \E ok \in LegOutcomes(orders) :
              /\ log' = Append(log, Ev("place_order", "stop", ok))
              /\ result' = [result EXCEPT !.tags = @ \cup {LegMessage("stop", ok)}]
              /\ orders' = IF ok
                           THEN Append(orders,
                                       NewOrder("stop", ProtectSide(PositionType(et.action)),
                                                et.stop_loss, "OPEN"))
                           ELSE orders
              /\ mem' = [mem EXCEPT !.current_position =
                           WithStopLeg(@, et.stop_loss, ok, Len(orders) + 1)]
       ELSE UNCHANGED << log, result, orders, mem >>
    /\ pc' = "et_tp"
    /\ UNCHANGED << disk, diskState, now, current_price, trade_results, current_status,
                    scan, trade_data, et, brokerNet, brokerVwap >>
    /\ UNCHANGED << call, ret >>

\* entry info written once both legs were tried
OpenedPosition(pos, position_type, price, t) ==
    [ pos EXCEPT !.status = position_type, !.entry_price = price,
                 !.entry_time = t, !.unrealized_pnl = 0 ]

\* take-profit leg of an open, then the entry info
ExecuteTakeProfit ==
    /\ pc = "et_tp"
    /\ \E ok \in LegOutcomes(orders) :
         LET tries == Truthy(et.take_profit)
             placed == tries /\ ok
             r == IF tries
                  THEN [result EXCEPT !.tags = @ \cup {LegMessage("tp", ok)}]
                  ELSE result
             pos1 == WithTakeProfitLeg(mem.current_position, et.take_profit, placed,
                                       Len(orders) + 1)
         IN  /\ log' = IF tries THEN Append(log, Ev("place_order", "tp", ok)) ELSE log
             /\ orders' = IF placed
                          THEN Append(orders,
                                      NewOrder("tp", ProtectSide(PositionType(et.action)),
                                               et.take_profit, "OPEN"))
                          ELSE orders
             /\ mem' = [mem EXCEPT !.current_position =
                          OpenedPosition(pos1, PositionType(et.action), et.price, now)]
             /\ result' = r
             /\ trade_results' = Append(trade_results, Returned(r))
    /\ pc' = et.ret
    /\ UNCHANGED << disk, diskState, now, current_price, current_status, scan,
                    trade_data, et, brokerNet, brokerVwap >>
    /\ UNCHANGED << call, ret >>

\* the store after a close at price: one record if the entry price is known
\* variant: the close forgets to clear the entry order id
ClosedStoreKeepsEntryOrder(store, action, price, t) ==
    LET pos == store.current_position
        type == IF action = "close_long" THEN "long" ELSE "short"
        store1 == IF Truthy(pos.entry_price)
                  THEN RecordTrade(store,
                                   TradeRecord(type, pos.entry_price, price,
                                               pos.entry_time, t, NoNote))
                  ELSE store
    IN  [store1 EXCEPT !.current_position =
           [ClearedPosition EXCEPT !.entry_order_id = pos.entry_order_id]]

ClosedStore(store, action, price, t) ==
    LET pos == store.current_position
        type == IF action = "close_long" THEN "long" ELSE "short"
        store1 == IF Truthy(pos.entry_price)
                  THEN RecordTrade(store,
                                   TradeRecord(type, pos.entry_price, price,
                                               pos.entry_time, t, NoNote))
                  ELSE store
    IN  [store1 EXCEPT !.current_position = ClearedPosition]

\* after a successful closing order: cancel the recorded orders, account
\* the trade, clear the position
ExecuteClose ==
    /\ pc = "et_close"
    /\ \E cancelOk \in BOOLEAN :
         LET pos == mem.current_position
             order_ids == RecordedOrderIds(pos)
             type == IF et.action = "close_long" THEN "long" ELSE "short"
             pl == IF Truthy(pos.entry_price)
                   THEN ProfitLoss(type, pos.entry_price, et.price) ELSE 0
             r == [result EXCEPT !.profit_loss = pl,
                                 !.tags = IF Truthy(pos.entry_price) THEN @ \cup {"pl"} ELSE @]
         IN  /\ orders' = cancel_pending_orders(orders, order_ids, cancelOk)
             /\ log' = IF order_ids # {}
                       THEN Append(log, Ev("cancel_orders", "recorded", cancelOk)) ELSE log
             /\ mem' = ClosedStore(mem, et.action, et.price, now)
             /\ result' = r
             /\ trade_results' = Append(trade_results, Returned(r))
             /\ pc' = AfterCancel(et.ret, order_ids = {} \/ cancelOk)
    /\ UNCHANGED << disk, diskState, now, current_price, current_status, scan,
                    trade_data, et, brokerNet, brokerVwap >>
    /\ UNCHANGED << call, ret >>


\* ------------------------------------------------------------------------
\* manage_positions: signal handling
\* ------------------------------------------------------------------------
OpenTrade(td, price) ==
    [ action |-> OpenAction(td), price |-> price, stop_loss |-> td.stop_loss,
      take_profit |-> td.take_profit, ret |-> "finish" ]

\* variant: an accepted signal goes straight to the entry order
OpenStartsWithEntry == "et_place"

\* an accepted signal first calls cancel_all_open_orders, then execute_trade
OpenStart == "cancel_all"

\* validation and volume filter in front of every open: either a rejection
\* is appended and the run goes on to the end of manage_positions, or the
\* stray orders are cancelled and the entry is submitted
TryOpen(td) ==
    LET v == validate_trade_levels(td, current_price) IN
    IF ~v.valid
    THEN /\ trade_results' = Append(trade_results, Msg(FALSE, {"invalid_levels", v.error}))
         /\ pc' = "finish"
         /\ et' = NoTrade
    ELSE \E volumes \in VolumeSeries :
           IF ~check_volume_conditions(volumes)
           THEN /\ trade_results' = Append(trade_results, Msg(FALSE, {"volume_low"}))
                /\ pc' = "finish"
                /\ et' = NoTrade
           ELSE /\ trade_results' = trade_results
                /\ pc' = OpenStart
                /\ et' = OpenTrade(td, current_price)

\* current_status == "none": buy or sell opens, hold cleans up
SignalFromNone ==
    /\ pc = "signal" /\ current_status = "none"
    /\ \E td \in { analyze_with_llm(response) : response \in Responses } :
         /\ trade_data' = td
         /\ IF td.action = "hold"
            THEN /\ et' = NoTrade
                 /\ pc' = "cancel_all"
                 /\ UNCHANGED trade_results
            ELSE TryOpen(td)
    /\ UNCHANGED << disk, diskState, mem, now, current_price, result, current_status,
                    scan, orders, brokerNet, brokerVwap, log >>
    /\ UNCHANGED << call, ret >>

SameDirection(status, action) ==
    (status = "long" /\ action = "buy") \/ (status = "short" /\ action = "sell")

\* long + buy, short + sell: keep the position and refresh unrealized_pnl
SignalKeep ==
    /\ pc = "signal" /\ current_status \in {"long", "short"}
    /\ \E td \in { analyze_with_llm(response) : response \in Responses } :
         /\ SameDirection(current_status, td.action)
         /\ trade_data' = td
    /\ LET entry == mem.current_position.entry_price
           pl == IF Truthy(entry) THEN ProfitLoss(current_status, entry, current_price)
                 ELSE 0
       IN  mem' = [mem EXCEPT !.current_position.unrealized_pnl = pl]
    /\ trade_results' = Append(trade_results, Msg(TRUE, {"holding"}))
    /\ pc' = "repair_stop"
    /\ UNCHANGED << disk, diskState, now, current_price, result, current_status, scan,
                    et, orders, brokerNet, brokerVwap, log >>
    /\ UNCHANGED << call, ret >>

\* long + sell, short + buy (close, then open the other way) and
\* long + hold, short + hold (close)
SignalCloseOrFlip ==
    /\ pc = "signal" /\ current_status \in {"long", "short"}
    /\ \E td \in { analyze_with_llm(response) : response \in Responses } :
         /\ ~SameDirection(current_status, td.action)
         /\ trade_data' = td
         /\ et' = [ action |-> CloseAction(current_status), price |-> current_price,
                    stop_loss |-> Null, take_profit |-> Null,
                    ret |-> IF td.action = "hold" THEN "finish" ELSE "flip" ]
    /\ pc' = "et_place"
    /\ UNCHANGED << disk, diskState, mem, now, current_price, trade_results, result,
                    current_status, scan, orders, brokerNet, brokerVwap, log >>
    /\ UNCHANGED << call, ret >>

\* second half of a flip: whatever the close returned, validate and open
FlipOpen ==
    /\ pc = "flip"
    /\ TryOpen(trade_data)
    /\ UNCHANGED << disk, diskState, mem, now, current_price, result, current_status,
                    scan, trade_data, orders, brokerNet, brokerVwap, log >>
    /\ UNCHANGED << call, ret >>

\* variant: an open that does not cancel what is pending
CancelNothing(ords, listOk, cancelOk) == ords

\* variant: only the oldest resting order is cancelled
CancelOldestOnly(ords, listOk, cancelOk) ==
    LET order_ids == IF listOk THEN OpenOrderIds(ords) ELSE {} IN
    IF order_ids # {} /\ cancelOk
    THEN CancelOrders(ords, {CHOOSE i \in order_ids : \A j \in order_ids : i <= j})
    ELSE ords

\* cancel_all_open_orders: list the OPEN orders of the product, cancel them;
\* an error of either call is swallowed
cancel_all_open_orders(ords, listOk, cancelOk) ==
    LET order_ids == IF listOk THEN OpenOrderIds(ords) ELSE {} IN
    IF order_ids # {} /\ cancelOk THEN CancelOrders(ords, order_ids) ELSE ords

CancelAllOpenOrders ==
    /\ pc = "cancel_all"
    /\ \E listOk \in BOOLEAN, cancelOk \in BOOLEAN :
         LET ok == listOk /\ (OpenOrderIds(orders) = {} \/ cancelOk) IN
         /\ orders' = cancel_all_open_orders(orders, listOk, cancelOk)
         /\ log' = Append(log, Ev("cancel_all_open_orders", "open", ok))
         /\ pc' = AfterCancel(IF IsOpen(et.action) THEN "et_place" ELSE "finish", ok)
    /\ trade_results' = IF IsOpen(et.action) THEN trade_results
                        ELSE Append(trade_results, Msg(TRUE, {"no_position_hold"}))
    /\ UNCHANGED << disk, diskState, mem, now, current_price, result, current_status,
                    scan, trade_data, et, brokerNet, brokerVwap >>
    /\ UNCHANGED << call, ret >>

\* results[0]["message"] += ...: the holding message is the last one appended
TagLast(results, tag) ==
    [results EXCEPT ![Len(results)].tags = @ \cup {tag}]

\* variant: a leg is placed whenever the signal carries its level
LegPlacedAgain(order_id, level) == Truthy(level)

\* a protective leg is placed by the repair when no order id is recorded for
\* it and the signal carries its level
LegMissing(order_id, level) == order_id = Null /\ Truthy(level)

\* repair: place the stop-loss order if none is recorded
RepairStop ==
    /\ pc = "repair_stop"
    /\ IF LegMissing(mem.current_position.stop_loss_order_id, trade_data.stop_loss)
       THEN \E ok \in LegOutcomes(orders) :
              /\ log' = Append(log, Ev("place_order", "stop", ok))
              /\ orders' = IF ok
                           THEN Append(orders,
                                       NewOrder("stop", ProtectSide(current_status),
                                                trade_data.stop_loss, "OPEN"))
                           ELSE orders
              /\ mem' = IF ok
                        THEN [mem EXCEPT
                                !.current_position.stop_loss = trade_data.stop_loss,
                                !.current_position.stop_loss_order_id = Len(orders) + 1]
                        ELSE mem
              /\ trade_results' = TagLast(trade_results, LegMessage("stop", ok))
       ELSE UNCHANGED << log, orders, mem, trade_results >>
    /\ pc' = "repair_tp"
    /\ UNCHANGED << disk, diskState, now, current_price, result, current_status, scan,
                    trade_data, et, brokerNet, brokerVwap >>
    /\ UNCHANGED << call, ret >>

\* repair: place the take-profit order if none is recorded
RepairTakeProfit ==
    /\ pc = "repair_tp"
    /\ IF LegMissing(mem.current_position.take_profit_order_id, trade_data.take_profit)
       THEN \E ok \in LegOutcomes(orders) :
              /\ log' = Append(log, Ev("place_order", "tp", ok))
              /\ orders' = IF ok
                           THEN Append(orders,
                                       NewOrder("tp", ProtectSide(current_status),
                                                trade_data.take_profit, "OPEN"))
                           ELSE orders
              /\ mem' = IF ok
                        THEN [mem EXCEPT
                                !.current_position.take_profit = trade_data.take_profit,
                                !.current_position.take_profit_order_id = Len(orders) + 1]
                        ELSE mem
              /\ trade_results' = TagLast(trade_results, LegMessage("tp", ok))
       ELSE UNCHANGED << log, orders, mem, trade_results >>
    /\ pc' = "finish"
    /\ UNCHANGED << disk, diskState, now, current_price, result, current_status, scan,
                    trade_data, et, brokerNet, brokerVwap >>
    /\ UNCHANGED << call, ret >>

\* ------------------------------------------------------------------------
\* End of manage_positions, save_positions and the notification
\* ------------------------------------------------------------------------
\* positions_data["last_signal"] = new_signal, the last statement of
\* manage_positions
WithLastSignal(store, td) == [store EXCEPT !.last_signal = new_signal(td)]

\* variant: the file is left as it was
SaveNothing(file, positions_data) == file

\* save_positions(positions_data): json.dump replaces the content of
\* positions.json with the store
save_positions(file, positions_data) == positions_data

\* manage_positions returns and save_positions writes positions.json; what
\* is left of the run reads nothing but the saved store
SavePositions ==
    /\ pc = "finish"
    /\ mem' = WithLastSignal(mem, trade_data)
    /\ disk' = save_positions(disk, WithLastSignal(mem, trade_data))
    /\ diskState' = "ok"
    /\ log' = << Ev("save_positions", "none", TRUE) >>
    /\ pc' = "notify"
    /\ et' = NoTrade
    /\ result' = NoResult
    /\ current_status' = "none"
    /\ scan' = NoHit
    /\ trade_data' = HoldSignal
    /\ trade_results' = << >>
    /\ current_price' = Null
    /\ UNCHANGED << now, orders, brokerNet, brokerVwap >>
    /\ UNCHANGED << call, ret >>

\* open(..., "w") or json.dump raises: the exception is not caught; the
\* file is untouched if open failed and truncated if the write died
SaveFail ==
    /\ pc = "finish"
    /\ \E truncated \in BOOLEAN :
         diskState' = IF truncated THEN "partial" ELSE diskState
    /\ EndOfProcess
    /\ UNCHANGED << disk, now, orders, brokerNet, brokerVwap >>
    /\ UNCHANGED << call, ret >>

\* generate_chart and send_to_discord: the webhook accepts the message, or
\* it answers with an error status (printed) or the request raises
Notify ==
    /\ pc = "notify"
    /\ \E delivered \in BOOLEAN :
         log' = Append(log, Ev("send_to_discord", "none", delivered))
    /\ pc' = "exit"
    /\ UNCHANGED << disk, diskState, mem, now, current_price, trade_results, result,
                    current_status, scan, trade_data, et, orders, brokerNet, brokerVwap >>
    /\ UNCHANGED << call, ret >>

\* the process ends after the notification, delivered or not
Exit ==
    /\ pc = "exit"
    /\ EndOfProcess
    /\ UNCHANGED << disk, diskState, now, orders, brokerNet, brokerVwap >>
    /\ UNCHANGED << call, ret >>

\* ------------------------------------------------------------------------
\* The exchange between two runs
\* ------------------------------------------------------------------------
\* average_filled_price of a filled order: a limit order fills at its
\* price, a triggered stop order at the limit it carries
FillPrices(o) ==
    IF o.kind = "stop"
    THEN { IF o.side = "SELL" THEN o.price - STOP_LIMIT_BUFFER
           ELSE o.price + STOP_LIMIT_BUFFER }
    ELSE { o.price }

BrokerFill ==
    /\ pc = "idle" /\ now < MaxRuns
    /\ \E i \in OpenOrderIds(orders) :
         /\ Abs(NetAfter(brokerNet, orders[i].side)) <= MaxNet
         /\ \E p \in FillPrices(orders[i]) :
              /\ orders' = [orders EXCEPT ![i].status = "FILLED", ![i].fill = p]
              /\ brokerVwap' = VwapAfter(brokerNet, brokerVwap, orders[i].side, p)
         /\ brokerNet' = NetAfter(brokerNet, orders[i].side)
    /\ UNCHANGED << disk, diskState, mem, pc, now, current_price, trade_results, result,
                    current_status, scan, trade_data, et, log >>
    /\ UNCHANGED << call, ret >>

\* the position is closed outside the bot (manually, or by liquidation)
ExternalClose ==
    /\ pc = "idle" /\ now < MaxRuns
    /\ brokerNet # 0
    /\ brokerNet' = 0
    /\ brokerVwap' = 0
    /\ UNCHANGED << disk, diskState, mem, pc, now, current_price, trade_results, result,
                    current_status, scan, trade_data, et, orders, log >>
    /\ UNCHANGED << call, ret >>

\* a position is opened outside the bot, on the same account
ExternalOpen ==
    /\ pc = "idle" /\ now < MaxRuns
    /\ brokerNet = 0
    /\ \E side \in {"BUY", "SELL"} :
         /\ Abs(NetAfter(brokerNet, side)) <= MaxNet
         /\ brokerNet' = NetAfter(brokerNet, side)
         /\ \E p \in ExternalPrices :
              brokerVwap' = VwapAfter(brokerNet, brokerVwap, side, p)
    /\ UNCHANGED << disk, diskState, mem, pc, now, current_price, trade_results, result,
                    current_status, scan, trade_data, et, orders, log >>
    /\ UNCHANGED << call, ret >>

Next ==
    \/ StartRun
    \/ LoadFail
    \/ ReconcileError
    \/ ReconcileSync
    \/ ReconcileFlat
    \/ ScanCrash
    \/ ScanStopTarget
    \/ ExecutePlace
    \/ ExecuteStop
    \/ ExecuteTakeProfit
    \/ ExecuteClose
    \/ SignalFromNone
    \/ SignalKeep
    \/ SignalCloseOrFlip
    \/ FlipOpen
    \/ CancelAllOpenOrders
    \/ RepairStop
    \/ RepairTakeProfit
    \/ SavePositions
    \/ SaveFail
    \/ Notify
    \/ Exit
    \/ BrokerFill
    \/ ExternalClose
    \/ ExternalOpen

Spec == Init /\ [][Next]_vars


\* ------------------------------------------------------------------------
\* Functions called on their own, on arguments drawn from bounded sets
\* ------------------------------------------------------------------------
\* main.py, check_stop_target of the paper variant: no orders to cancel
PaperNoHit == [ should_close |-> FALSE, reason |-> "none", exit_price |-> Null ]

PaperCandleHit(pos, candle) ==
    LET target_hit == [ should_close |-> TRUE, reason |-> "target_hit",
                        exit_price |-> pos.take_profit ]
        stop_hit == [ should_close |-> TRUE, reason |-> "stop_hit",
                      exit_price |-> pos.stop_loss ]
    IN  IF pos.status = "long"
        THEN IF Truthy(pos.take_profit) /\ candle.high >= pos.take_profit THEN target_hit
             ELSE IF Truthy(pos.stop_loss) /\ candle.low <= pos.stop_loss THEN stop_hit
             ELSE PaperNoHit
        ELSE IF pos.status = "short"
        THEN IF Truthy(pos.take_profit) /\ candle.low <= pos.take_profit THEN target_hit
             ELSE IF Truthy(pos.stop_loss) /\ candle.high >= pos.stop_loss THEN stop_hit
             ELSE PaperNoHit
        ELSE PaperNoHit

RECURSIVE PaperFirstHit(_, _)
PaperFirstHit(pos, cs) ==
    IF cs = << >> THEN PaperNoHit
    ELSE IF PaperCandleHit(pos, Head(cs)).should_close THEN PaperCandleHit(pos, Head(cs))
    ELSE PaperFirstHit(pos, Tail(cs))

paper_check_stop_target(pos, candles) ==
    IF pos.status = "none" THEN PaperNoHit
    ELSE PaperFirstHit(pos, RelevantCandles(pos, candles))

\* stop and target of the positions handed to the scanner
ScanLevels == { << 4285, 4320 >>, << 4320, 4285 >>, << Null, 4320 >>, << 4285, Null >> }

\* high and low of the candles handed to the scanner
ScanShapes == { << 4310, 4290 >>, << 4325, 4290 >>, << 4310, 4280 >>, << 4325, 4280 >> }

\* three candles, oldest first, as the csv lists them
ScanCandles ==
    { << [timestamp |-> 0, high |-> a[1], low |-> a[2]],
         [timestamp |-> 1, high |-> b[1], low |-> b[2]],
         [timestamp |-> 2, high |-> c[1], low |-> c[2]] >> :
      a \in ScanShapes, b \in ScanShapes, c \in ScanShapes }

\* the flat position, and open positions as execute_trade leaves them
ScanPositions ==
    { ClearedPosition } \cup
    { [ ClearedPosition EXCEPT
          !.status = st, !.entry_price = 4300, !.entry_time = t,
          !.stop_loss = lv[1], !.take_profit = lv[2], !.entry_order_id = 1,
          !.stop_loss_order_id = sid, !.take_profit_order_id = tid,
          !.unrealized_pnl = 0 ] :
      st \in {"long", "short"}, t \in {1, 2}, lv \in ScanLevels,
      sid \in {Null, 2}, tid \in {Null, 3} }

\* signals that pass validate_trade_levels at the price of the open
OpeningSignals == { td \in Signals : validate_trade_levels(td, 4300).valid }

\* two candles after an open at time 1
CandlesAfterOpen ==
    { << [timestamp |-> 1, high |-> a[1], low |-> a[2]],
         [timestamp |-> 2, high |-> b[1], low |-> b[2]] >> :
      a \in CandleShapes, b \in CandleShapes }

\* the position execute_trade stores for an accepted entry, given the
\* outcome of the two protective legs
PositionAfterOpen(td, stop_ok, tp_ok) ==
    LET pos0 == [ClearedPosition EXCEPT !.entry_order_id = 1]
        pos1 == WithStopLeg(pos0, td.stop_loss, stop_ok, 2)
        pos2 == WithTakeProfitLeg(pos1, td.take_profit, tp_ok, 3)
    IN  OpenedPosition(pos2, PositionType(OpenAction(td)), 4300, 1)

\* main.py, validate_trade_levels of the paper variant: the window is the
\* literal 0.10 .. 0.50 percent
paper_validate_trade_levels(td, price) ==
    LET stop == td.stop_loss
        target == td.take_profit
        stop_distance == Abs(price - stop)
        target_distance == Abs(price - target)
        Bad(e) == [valid |-> FALSE, error |-> e]
    IN  IF td.action = "hold" THEN [valid |-> TRUE, error |-> "none"]
        ELSE IF stop = Null \/ target = Null THEN Bad("missing_levels")
        ELSE IF PercentageBelow(stop_distance, price, 10) THEN Bad("stop_too_tight")
        ELSE IF PercentageAbove(stop_distance, price, 50) THEN Bad("stop_too_wide")
        ELSE IF PercentageBelow(target_distance, price, 10) THEN Bad("target_too_close")
        ELSE IF PercentageAbove(target_distance, price, 50) THEN Bad("target_too_far")
        ELSE IF (IF stop_distance > 0 THEN 2 * target_distance < stop_distance ELSE TRUE)
             THEN Bad("rr_too_low")
        ELSE IF stop_distance > 0 /\ target_distance > 3 * stop_distance THEN Bad("rr_too_high")
        ELSE IF td.action = "buy" /\ stop >= price THEN Bad("long_stop_not_below")
        ELSE IF td.action = "buy" /\ target <= price THEN Bad("long_target_not_above")
        ELSE IF td.action = "sell" /\ target >= price THEN Bad("short_target_not_below")
        ELSE IF td.action = "sell" /\ stop <= price THEN Bad("short_stop_not_above")
        ELSE [valid |-> TRUE, error |-> "none"]

\* prices handed to the validator
ValidatorPrices == {4000, 4300}

\* distances of a level from the price: around 0.10%, 0.40%, 0.50% and
\* 2.90% of the two prices, and pairs in the ratios 1:2 and 3:1
ValidatorDistances == {0, 2, 4, 5, 8, 15, 16, 17, 20, 21, 22, 40, 48, 80, 116, 120}

\* a level is absent, or lies below, at or above the price
ValidatorLevels(price) ==
    {Null} \cup { price - d : d \in ValidatorDistances }
           \cup { price + d : d \in ValidatorDistances }

\* ------------------------------------------------------------------------
\* positions.json: json.dump and json.load
\* ------------------------------------------------------------------------
\* Python values the store holds, with their types
PyNone == [ type |-> "NoneType" ]
PyInt(n) == [ type |-> "int", v |-> n ]
PyFloat(x) == [ type |-> "float", v |-> x ]
PyStr(s) == [ type |-> "str", v |-> s ]

\* a price, a P/L or a level: None, or a float; a level the signal carried
\* is the number the LLM wrote, an int or a float
PyNumber(x, is_float) ==
    IF x = Null THEN PyNone ELSE IF is_float THEN PyFloat(x) ELSE PyInt(x)

\* an order id or an isoformat time: None, or a string
PyText(x) == IF x = Null THEN PyNone ELSE PyStr(x)

\* positions_data["current_position"] as execute_trade and the
\* reconciliation fill it
PyPosition(pos, levels_float) ==
    [ status |-> PyStr(pos.status),
      entry_price |-> PyNumber(pos.entry_price, TRUE),
      entry_time |-> PyText(pos.entry_time),
      stop_loss |-> PyNumber(pos.stop_loss, levels_float),
      take_profit |-> PyNumber(pos.take_profit, levels_float),
      trade_id |-> PyNone,
      action |-> PyNone,
      entry_order_id |-> PyText(pos.entry_order_id),
      stop_loss_order_id |-> PyText(pos.stop_loss_order_id),
      take_profit_order_id |-> PyText(pos.take_profit_order_id),
      unrealized_pnl |-> PyNumber(pos.unrealized_pnl, TRUE) ]

\* a record of trade_history; only the records of the reconciliation have
\* the key "note"
PyTrade(rec) ==
    LET base == [ type |-> PyStr(rec.type),
                  entry_price |-> PyFloat(rec.entry_price),
                  exit_price |-> PyFloat(rec.exit_price),
                  profit_loss |-> PyFloat(rec.profit_loss),
                  entry_time |-> PyText(rec.entry_time),
                  exit_time |-> PyText(rec.exit_time) ]
    IN  IF rec.note = NoNote THEN base
        ELSE [ k \in DOMAIN base \cup {"note"} |->
                 IF k = "note" THEN PyStr(rec.note) ELSE base[k] ]

PyStore(store, levels_float) ==
    [ current_position |-> PyPosition(store.current_position, levels_float),
      last_signal |-> PyStr(store.last_signal),
      trade_history |-> [ i \in DOMAIN store.trade_history |->
                            PyTrade(store.trade_history[i]) ],
      total_trades |-> PyInt(store.total_trades),
      winning_trades |-> PyInt(store.winning_trades),
      losing_trades |-> PyInt(store.losing_trades) ]

\* JSON text of a scalar: null, a number literal (the repr of a float always
\* has a fraction or an exponent, the repr of an int never), a string
json_dump_scalar(x) ==
    IF x.type = "NoneType" THEN [ json |-> "null" ]
    ELSE IF x.type = "int" THEN [ json |-> "number", digits |-> x.v, fraction |-> FALSE ]
    ELSE IF x.type = "float" THEN [ json |-> "number", digits |-> x.v, fraction |-> TRUE ]
    ELSE [ json |-> "string", chars |-> x.v ]

\* variant: every number literal is read as a float
json_load_numbers_as_float(t) ==
    IF t.json = "null" THEN PyNone
    ELSE IF t.json = "number" THEN PyFloat(t.digits)
    ELSE PyStr(t.chars)

\* the Python value json.load builds from a scalar
json_load_scalar(t) ==
    IF t.json = "null" THEN PyNone
    ELSE IF t.json = "number"
    THEN (IF t.fraction THEN PyFloat(t.digits) ELSE PyInt(t.digits))
    ELSE PyStr(t.chars)

\* json.dump(positions_data, f, indent=2) and json.load(f): objects keep
\* their keys in order both ways, so an object is its map from key to value
json_dump(data) ==
    [ current_position |-> [ k \in DOMAIN data.current_position |->
                               json_dump_scalar(data.current_position[k]) ],
      last_signal |-> json_dump_scalar(data.last_signal),
      trade_history |-> [ i \in DOMAIN data.trade_history |->
                            [ k \in DOMAIN data.trade_history[i] |->
                                json_dump_scalar(data.trade_history[i][k]) ] ],
      total_trades |-> json_dump_scalar(data.total_trades),
      winning_trades |-> json_dump_scalar(data.winning_trades),
      losing_trades |-> json_dump_scalar(data.losing_trades) ]

json_load(text) ==
    [ current_position |-> [ k \in DOMAIN text.current_position |->
                               json_load_scalar(text.current_position[k]) ],
      last_signal |-> json_load_scalar(text.last_signal),
      trade_history |-> [ i \in DOMAIN text.trade_history |->
                            [ k \in DOMAIN text.trade_history[i] |->
                                json_load_scalar(text.trade_history[i][k]) ] ],
      total_trades |-> json_load_scalar(text.total_trades),
      winning_trades |-> json_load_scalar(text.winning_trades),
      losing_trades |-> json_load_scalar(text.losing_trades) ]

\* no positions.json yet
AbsentFile == [ exists |-> FALSE ]

\* load_positions() followed by save_positions() of what it returned: the
\* content of the file after each of the two, and the store loaded
load_then_save(file) ==
    LET first == json_dump(PyStore(default_state, TRUE))
        loaded == IF file = AbsentFile THEN json_load(first) ELSE json_load(file)
    IN  [ loaded |-> loaded,
          after_load |-> IF file = AbsentFile THEN first ELSE file,
          after_save |-> json_dump(loaded) ]

\* stores a run leaves: a position, a history with its counters, a signal
WrittenHistories ==
    { default_state,
      RecordTrade(default_state, TradeRecord("long", 4300, 4320, 1, 2, NoNote)),
      RecordTrade(RecordTrade(default_state,
                              TradeRecord("short", 4300, 4283, 1, 2, DesyncNote("stop_hit"))),
                  TradeRecord("long", 4300, 4285, 2, 3, NoNote)) }

WrittenStores ==
    { [ h EXCEPT !.current_position = p, !.last_signal = a ] :
        h \in WrittenHistories, p \in ScanPositions, a \in {"hold", "buy", "sell"} }

\* contents of positions.json at the start of a run
WrittenFiles ==
    {AbsentFile} \cup
    { json_dump(PyStore(s, lf)) : s \in WrittenStores, lf \in BOOLEAN }

\* cancel_all_open_orders(client) called twice in a row, the broker
\* answering each listing and each cancellation on its own; the function
\* is not given positions_data
cancel_all_twice(ords, store, listOk1, cancelOk1, listOk2, cancelOk2) ==
    LET first == cancel_all_open_orders(ords, listOk1, cancelOk1)
    IN  [ first |-> first,
          second |-> cancel_all_open_orders(first, listOk2, cancelOk2),
          store_first |-> store,
          store_second |-> store ]

\* orders the broker may hold for the product: entries, stops and targets,
\* resting or done
BookOrders ==
    { NewOrder("entry", "BUY", 4300, st) : st \in {"OPEN", "FILLED", "CANCELLED"} }
    \cup { NewOrder("stop", "SELL", 4285, st) : st \in {"OPEN", "FILLED", "CANCELLED"} }
    \cup { NewOrder("tp", "SELL", 4320, st) : st \in {"OPEN", "FILLED", "CANCELLED"} }

OrderBooks ==
    { << >> } \cup { << a >> : a \in BookOrders }
    \cup { << a, b >> : a \in BookOrders, b \in BookOrders }

PureCalls ==
    { [ fn |-> f, pos |-> p, candles |-> cs ] :
        f \in {"check_stop_target", "paper_check_stop_target"},
        p \in ScanPositions, cs \in ScanCandles }
    \cup
    { [ fn |-> "open_then_scan", td |-> td, stop_ok |-> so, tp_ok |-> to, candles |-> cs ] :
        td \in OpeningSignals, so \in BOOLEAN, to \in BOOLEAN, cs \in CandlesAfterOpen }
    \cup
    UNION { { [ fn |-> f, td |-> Signal(a, stop, target), price |-> p ] :
                f \in {"validate_trade_levels", "paper_validate_trade_levels"},
                a \in {"buy", "sell", "hold"},
                stop \in ValidatorLevels(p), target \in ValidatorLevels(p) } :
            p \in ValidatorPrices }
    \cup
    { [ fn |-> "load_then_save", file |-> f ] : f \in WrittenFiles }
    \cup
    { [ fn |-> "cancel_all_twice", orders |-> b, store |-> s,
        listOk1 |-> l1, cancelOk1 |-> c1, listOk2 |-> l2, cancelOk2 |-> c2 ] :
        b \in OrderBooks, s \in WrittenHistories,
        l1 \in BOOLEAN, c1 \in BOOLEAN, l2 \in BOOLEAN, c2 \in BOOLEAN }

InitPure ==
    /\ FirstStart
    /\ call \in PureCalls
    /\ ret = NoCall

Returns(value) ==
    /\ ret = NoCall
    /\ ret' = [ fn |-> call.fn, value |-> value ]
    /\ UNCHANGED << disk, diskState, mem, pc, now, current_price, trade_results, result,
                    current_status, scan, trade_data, et, orders, brokerNet, brokerVwap,
                    log, call >>

CallCheckStopTarget ==
    /\ call.fn = "check_stop_target"
    /\ Returns(check_stop_target(call.pos, call.candles))

CallPaperCheckStopTarget ==
    /\ call.fn = "paper_check_stop_target"
    /\ Returns(paper_check_stop_target(call.pos, call.candles))

\* an open, then the scan of the next run
CallOpenThenScan ==
    /\ call.fn = "open_then_scan"
    /\ Returns(check_stop_target(PositionAfterOpen(call.td, call.stop_ok, call.tp_ok),
                                 call.candles))

CallValidateTradeLevels ==
    /\ call.fn = "validate_trade_levels"
    /\ Returns(validate_trade_levels(call.td, call.price))

CallPaperValidateTradeLevels ==
    /\ call.fn = "paper_validate_trade_levels"
    /\ Returns(paper_validate_trade_levels(call.td, call.price))

CallLoadThenSave ==
    /\ call.fn = "load_then_save"
    /\ Returns(load_then_save(call.file))

CallCancelAllTwice ==
    /\ call.fn = "cancel_all_twice"
    /\ Returns(cancel_all_twice(call.orders, call.store, call.listOk1, call.cancelOk1,
                                call.listOk2, call.cancelOk2))

NextPure ==
    \/ CallCancelAllTwice
    \/ CallLoadThenSave
    \/ CallCheckStopTarget
    \/ CallPaperCheckStopTarget
    \/ CallOpenThenScan
    \/ CallValidateTradeLevels
    \/ CallPaperValidateTradeLevels

SpecPure == InitPure /\ [][NextPure]_vars

\* ========================================================================
\* Properties
\* ========================================================================
Last(s) == s[Len(s)]

PositionFields ==
    { "entry_price", "entry_time", "stop_loss", "take_profit", "entry_order_id",
      "stop_loss_order_id", "take_profit_order_id" }

AllFieldsNull(pos) == \A f \in PositionFields : pos[f] = Null

StoreConsistent(store) ==
    store.current_position.status = "none" <=> AllFieldsNull(store.current_position)

\* C1: in every state of the store, the file on disk and the store in memory
\* outside the middle of an open (between the entry order and the end of
\* execute_trade), the position status is "none" exactly when entry price,
\* entry time, stop, target and the three order ids are all null.
C1_NoneIffFieldsNull ==
    /\ StoreConsistent(disk)
    /\ pc \notin {"et_stop", "et_tp"} => StoreConsistent(mem)

\* a position was opened, saved, and closed again in a later run
C1_Witness ==
    /\ pc = "finish"
    /\ disk.current_position.status # "none"
    /\ ~AllFieldsNull(disk.current_position)
    /\ mem.current_position.status = "none"
    /\ Len(mem.trade_history) = 1

EntryHadFilled(pos) ==
    pos.entry_order_id = Null \/ orders[pos.entry_order_id].status = "FILLED"

C2_ClosesPosition ==
    /\ mem.current_position.status # "none"
    /\ mem'.current_position.status = "none"
    /\ \/ pc = "et_close"
       \/ pc = "reconcile" /\ EntryHadFilled(mem.current_position)

\* C2: each close of a position, by the stop/target scanner, by a signal, or
\* by the reconciliation of a position whose entry had filled, appends
\* exactly one trade record; no other step of a run appends a record, and no
\* step appends two.
C2_OneRecordPerClose ==
    [][ (pc # "idle" /\ pc' # "idle") =>
          /\ C2_ClosesPosition =>
               Len(mem'.trade_history) = Len(mem.trade_history) + 1
          /\ Len(mem'.trade_history) # Len(mem.trade_history) =>
               /\ Len(mem'.trade_history) = Len(mem.trade_history) + 1
               /\ mem.current_position.status # "none"
               /\ mem'.current_position.status = "none" ]_vars

\* the scanner closed a position in this run and its record is in the history
C2_Witness ==
    /\ pc = "signal"
    /\ scan.should_close
    /\ mem.current_position.status = "none"
    /\ Len(mem.trade_history) = Len(disk.trade_history) + 1

\* orders of a kind that rest on the broker
Resting(kind) ==
    { i \in DOMAIN orders : orders[i].kind = kind /\ orders[i].status = "OPEN" }

Before(j) == { i \in DOMAIN log : i < j }

\* an open is under way, or has completed, after its entry order was accepted
OpenPlaced ==
    \/ pc \in {"et_stop", "et_tp"}
    \/ pc = "finish" /\ IsOpen(et.action) /\ result.success

EntryJustFailed ==
    /\ pc = "et_place" /\ IsOpen(et.action)
    /\ Last(log') = Ev("place_order", "entry", FALSE)

\* C4: when the broker rejects the entry order (or the call raises),
\* execute_trade returns a failed result carrying the broker's error, the
\* store and the broker's orders are as before, and no stop or take-profit
\* order is placed in the rest of the run.
C4_FailedEntryNoFurtherAction ==
    /\ [][ EntryJustFailed =>
             /\ mem' = mem /\ orders' = orders
             /\ brokerNet' = brokerNet
             /\ pc' = et.ret
             /\ trade_results' = Append(trade_results, result')
             /\ ~result'.success
             /\ {"trade_failed", "broker_error"} \subseteq result'.tags ]_vars
    /\ [] \A i, j \in DOMAIN log :
            (i < j /\ log[i] = Ev("place_order", "entry", FALSE)) =>
                log[j].op # "place_order"

\* the entry of an open failed and the run has gone on to its end
C4_Witness ==
    /\ pc = "finish"
    /\ IsOpen(et.action)
    /\ Last(log) = Ev("place_order", "entry", FALSE)
    /\ ~Last(trade_results).success

\* the protective order placed last, and the position it protects
JustPlacedProtective ==
    /\ log # << >>
    /\ Last(log).op = "place_order" /\ Last(log).arg \in {"stop", "tp"}
    /\ Last(log).ok

ProtectedPositionExists ==
    IF Last(orders).side = "SELL" THEN brokerNet > 0 ELSE brokerNet < 0

\* C5 as stated: a stop or take-profit order is submitted only when the
\* position it protects exists on the broker, never while the entry order
\* still rests unfilled.
C5_ProtectiveOnlyWithPosition ==
    JustPlacedProtective => ProtectedPositionExists

\* an open whose entry order was accepted has run to the end of execute_trade
OpenCompleted ==
    /\ pc = "finish" /\ IsOpen(et.action)
    /\ result.success
    /\ Len(log) >= 3
    /\ log[Len(log) - 2] = Ev("place_order", "entry", TRUE)

\* C6: after an accepted entry the stop leg and the take-profit leg are both
\* attempted whatever the outcome of the other, the position is recorded as
\* open, and the result message names each leg that failed.
C6_LegsIndependent ==
    OpenCompleted =>
        /\ log[Len(log) - 1].op = "place_order" /\ log[Len(log) - 1].arg = "stop"
        /\ Last(log).op = "place_order" /\ Last(log).arg = "tp"
        /\ mem.current_position.status = PositionType(et.action)
        /\ Last(trade_results) = result
        /\ ("stop_failed" \in result.tags) <=> ~log[Len(log) - 1].ok
        /\ ("tp_failed" \in result.tags) <=> ~Last(log).ok
        /\ log[Len(log) - 1].ok => mem.current_position.stop_loss_order_id # Null
        /\ Last(log).ok => mem.current_position.take_profit_order_id # Null

\* the stop leg failed, the take-profit leg was placed all the same
C6_Witness ==
    /\ OpenCompleted
    /\ ~log[Len(log) - 1].ok
    /\ Last(log).ok
    /\ mem.current_position.take_profit_order_id # Null

\* a close has just run to the end of execute_trade
CloseCompleted ==
    /\ IsClose(et.action) /\ result.success
    /\ pc = et.ret
    /\ Last(log).op = "cancel_orders" /\ Last(log).arg = "recorded"

\* C7 as stated: after a close the broker holds no position and no order of
\* the closed position rests.
C7_CloseLeavesBrokerFlat ==
    CloseCompleted =>
        /\ brokerNet = 0
        /\ \A i \in RecordedOrderIds(disk.current_position) : orders[i].status # "OPEN"
        /\ Last(orders).status # "OPEN"

\* the reconciliation finds the broker flat while the store holds a position
ReconcilesFlat ==
    /\ pc = "reconcile" /\ pc' = "scan"
    /\ log'[Len(log) + 1] = Ev("get_position", "false", TRUE)
    /\ mem.current_position.status # "none"

EntryRestsUnfilled(pos) ==
    pos.entry_order_id # Null /\ orders[pos.entry_order_id].status = "OPEN"

Counters(store) ==
    << store.total_trades, store.winning_trades, store.losing_trades >>

\* C8 as stated: when the reconciliation finds the broker flat and the entry
\* order of the stored position is still unfilled at the start of the run
\* (and get_order answers for it), no record is appended and no counter
\* changes, the only result is the "entry never filled" message, and the
\* position is cleared.
C8_UnfilledEntryNoRecord ==
    [][ ( /\ ReconcilesFlat
          /\ EntryRestsUnfilled(mem.current_position)
          /\ Last(log') = Ev("get_order", "entry", TRUE) ) =>
          /\ mem'.trade_history = mem.trade_history
          /\ Counters(mem') = Counters(mem)
          /\ trade_results' =
               Append(trade_results, Msg(TRUE, {"desync", "entry_never_filled"}))
          /\ mem'.current_position = ClearedPosition ]_vars

\* what get_order confirmed in the step that ends here
Confirmed(leg, id) ==
    /\ id # Null
    /\ \E i \in DOMAIN log' : i > Len(log) /\ log'[i] = Ev("get_order", leg, TRUE)
    /\ orders[id].status = "FILLED"

\* C9: when the reconciliation finds the broker flat and the entry of the
\* stored position had filled, exactly one record is appended; its exit
\* price is the average fill price of the stop order if get_order confirms
\* it FILLED, else that of the take-profit order if confirmed FILLED, else
\* the current market price; its note mentions the desync; the counters are
\* updated with it and the position is cleared.
C9_DesyncRecorded ==
    [][ (ReconcilesFlat /\ EntryHadFilled(mem.current_position)) =>
          LET pos == mem.current_position
              rec == Last(mem'.trade_history)
              exit == IF Confirmed("stop", pos.stop_loss_order_id)
                      THEN orders[pos.stop_loss_order_id].fill
                      ELSE IF Confirmed("tp", pos.take_profit_order_id)
                      THEN orders[pos.take_profit_order_id].fill
                      ELSE current_price
              pl == IF pos.status = "long" THEN exit - pos.entry_price
                    ELSE pos.entry_price - exit
          IN  /\ Len(mem'.trade_history) = Len(mem.trade_history) + 1
              /\ SubSeq(mem'.trade_history, 1, Len(mem.trade_history)) = mem.trade_history
              /\ rec.type = pos.status /\ rec.entry_price = pos.entry_price
              /\ rec.exit_price = exit
              /\ rec.profit_loss = pl * CONTRACTS_PER_TRADE
              /\ Len(rec.note) > 0 /\ rec.note[1] = "desync"
              /\ mem'.total_trades = mem.total_trades + 1
              /\ mem'.winning_trades = mem.winning_trades + (IF pl > 0 THEN 1 ELSE 0)
              /\ mem'.losing_trades = mem.losing_trades + (IF pl > 0 THEN 0 ELSE 1)
              /\ mem'.current_position = ClearedPosition ]_vars

\* the stop of the stored position filled between two runs and the
\* reconciliation has recorded the close at its fill price
C9_Witness ==
    /\ pc = "scan"
    /\ disk.current_position.status # "none"
    /\ Len(mem.trade_history) = Len(disk.trade_history) + 1
    /\ Last(mem.trade_history).note = DesyncNote("stop_hit")
    /\ Last(mem.trade_history).exit_price =
         orders[disk.current_position.stop_loss_order_id].fill

PositionQueryFailed ==
    \E i \in DOMAIN log : log[i].op = "get_position" /\ ~log[i].ok

\* C10: when the position query fails, the reconciliation changes nothing in
\* the store, records nothing, sends no order call, and the run goes on to
\* the stop/target scan.
C10_QueryErrorNoMutation ==
    /\ PositionQueryFailed => pc \notin {"idle", "reconcile"}
    /\ (PositionQueryFailed /\ pc = "scan") =>
         /\ mem = disk
         /\ trade_results = << >>
         /\ \A i \in DOMAIN log : log[i].op \in {"load_positions", "get_position"}

\* the query failed while the store holds a position, which it keeps
C10_Witness ==
    /\ pc = "signal"
    /\ PositionQueryFailed
    /\ disk.current_position.status # "none"
    /\ mem.current_position = disk.current_position
    /\ ~scan.should_close

\* the reconciliation finds a position on the broker; the call that ends
\* here tells whether the entry price it reported was zero
ReconcilesPosition ==
    /\ pc = "reconcile"
    /\ Last(log').op = "get_position" /\ Last(log').arg \in {"true", "true_zero"}

\* C11: when the broker reports a position, the reconciliation sets the
\* local status to the broker's side and unrealized_pnl to the broker's
\* value, and sets entry_price to the broker's entry price unless the broker
\* reports zero and the local entry_price is non-null, in which case the
\* local entry_price is kept; nothing else of the store changes.
C11_SyncOverwrites ==
    [][ ReconcilesPosition =>
          LET pos == mem.current_position
              zero == Last(log').arg = "true_zero"
          IN  /\ brokerNet # 0
              /\ mem'.current_position.status = (IF brokerNet > 0 THEN "long" ELSE "short")
              /\ mem'.current_position.unrealized_pnl \in BrokerPnls
              /\ mem'.current_position.entry_price =
                   (IF zero /\ pos.entry_price \notin {Null, 0} THEN pos.entry_price
                    ELSE IF zero THEN 0 ELSE brokerVwap)
              /\ mem' = [mem EXCEPT
                           !.current_position.status = mem'.current_position.status,
                           !.current_position.unrealized_pnl =
                               mem'.current_position.unrealized_pnl,
                           !.current_position.entry_price =
                               mem'.current_position.entry_price] ]_vars

\* the broker reported a zero entry price for a position the store holds
\* with its own entry price, which is kept
C11_Witness ==
    /\ pc = "scan"
    /\ Last(log) = Ev("get_position", "true_zero", TRUE)
    /\ disk.current_position.status # "none"
    /\ mem.current_position.entry_price = disk.current_position.entry_price
    /\ mem.current_position.entry_price # brokerVwap
    /\ mem.current_position.unrealized_pnl \in BrokerPnls

\* C12 as stated: the stored entry_price of an open position is never the
\* placeholder zero, because an entry price unknown to both the broker and
\* the store is back-calculated.
C12_EntryPriceNeverZero ==
    mem.current_position.status # "none" => mem.current_position.entry_price # 0

\* C13 as stated: at the end of manage_positions in a run where
\* check_stop_target reported a hit, at most one of stop_loss_order_id and
\* take_profit_order_id of the stored position is non-null.
C13_OneProtectiveIdAfterHit ==
    (pc = "finish" /\ scan.should_close) =>
        \/ mem.current_position.stop_loss_order_id = Null
        \/ mem.current_position.take_profit_order_id = Null

\* C14 as stated: when check_stop_target reported a hit, the stored position
\* is none when the signal is evaluated.
C14_NoneWhenSignalStarts ==
    (pc = "signal" /\ scan.should_close) =>
        /\ current_status = "none"
        /\ mem.current_position.status = "none"

\* a call of check_stop_target, of either variant, has returned
ScanReturned ==
    ret # NoCall /\ ret.fn \in {"check_stop_target", "paper_check_stop_target"}

\* the candles at or after the entry in which a level of the position is crossed
TargetCrossed(pos, c) ==
    /\ pos.take_profit # Null
    /\ IF pos.status = "long" THEN c.high >= pos.take_profit ELSE c.low <= pos.take_profit

StopCrossed(pos, c) ==
    /\ pos.stop_loss # Null
    /\ IF pos.status = "long" THEN c.low <= pos.stop_loss ELSE c.high >= pos.stop_loss

Crossings(pos, candles) ==
    { i \in DOMAIN candles :
        /\ pos.status # "none"
        /\ candles[i].timestamp >= pos.entry_time
        /\ TargetCrossed(pos, candles[i]) \/ StopCrossed(pos, candles[i]) }

Min(S) == CHOOSE x \in S : \A y \in S : x <= y

\* C15: check_stop_target returns the outcome of the oldest candle since the
\* entry in which a level is crossed: target_hit at the take-profit if that
\* candle crosses the target (also when it crosses the stop as well),
\* stop_hit at the stop otherwise; and no close if no candle crosses a level.
C15_FirstCrossingTargetFirst ==
    ScanReturned =>
        LET pos == call.pos
            X == Crossings(pos, call.candles)
            r == ret.value
        IN  IF X = {} THEN ~r.should_close
            ELSE /\ r.should_close
                 /\ IF TargetCrossed(pos, call.candles[Min(X)])
                    THEN r.reason = "target_hit" /\ r.exit_price = pos.take_profit
                    ELSE r.reason = "stop_hit" /\ r.exit_price = pos.stop_loss

\* a long with stop 4285 and target 4320 meets a candle with high 4325 and
\* low 4280: target_hit at 4320
C15_Witness ==
    /\ ScanReturned
    /\ call.pos.status = "long"
    /\ call.pos.stop_loss = 4285 /\ call.pos.take_profit = 4320
    /\ Crossings(call.pos, call.candles) # {}
    /\ call.candles[Min(Crossings(call.pos, call.candles))].high = 4325
    /\ call.candles[Min(Crossings(call.pos, call.candles))].low = 4280
    /\ ret.value.reason = "target_hit" /\ ret.value.exit_price = 4320

\* C16: when check_stop_target reports a hit, orders_to_cancel holds exactly
\* the recorded order id of the other side (the stop order on target_hit, the
\* take-profit order on stop_hit, nothing if that id is null), and
\* manage_positions sends its cancellation before the closing order: the
\* cancel call is the last call made when execute_trade starts, and when it
\* succeeded that order rests no longer.
C16_OtherSideCancelledFirst ==
    [][ (pc = "scan" /\ scan'.should_close) =>
          LET pos == mem.current_position
              other == IF scan'.reason = "target_hit" THEN pos.stop_loss_order_id
                       ELSE pos.take_profit_order_id
          IN  /\ scan'.reason \in {"target_hit", "stop_hit"}
              /\ scan'.orders_to_cancel = (IF other = Null THEN {} ELSE {other})
              /\ pc' = "et_place" /\ IsClose(et'.action)
              /\ \A i \in DOMAIN log' : ~(log'[i].op = "place_order" /\ log'[i].arg = "close")
              /\ other # Null =>
                   /\ Last(log').op = "cancel_orders" /\ Last(log').arg = "scan"
                   /\ Len(log') = Len(log) + 1
                   /\ Last(log').ok => orders'[other].status # "OPEN"
              /\ other = Null => log' = log /\ orders' = orders ]_vars

\* the target was hit and the resting stop order was cancelled before the
\* closing order is sent
C16_Witness ==
    /\ pc = "et_place" /\ IsClose(et.action)
    /\ scan.reason = "target_hit"
    /\ mem.current_position.stop_loss_order_id # Null
    /\ scan.orders_to_cancel = {mem.current_position.stop_loss_order_id}
    /\ Last(log) = Ev("cancel_orders", "scan", TRUE)
    /\ orders[mem.current_position.stop_loss_order_id].status = "CANCELLED"

\* the variant of check_stop_target under call
ScanFunction(pos, candles) ==
    IF call.fn = "check_stop_target" THEN check_stop_target(pos, candles)
    ELSE paper_check_stop_target(pos, candles)

\* candle sequences that differ from cs only in candles older than the entry
SameSinceEntry(pos, cs) ==
    { other \in ScanCandles :
        \A i \in DOMAIN cs :
            cs[i].timestamp >= pos.entry_time => other[i] = cs[i] }

\* C17: only candles with timestamp >= entry_time count: the result of
\* check_stop_target is the same whatever the high and low of the older
\* candles, a close is only reported if a candle since the entry crosses a
\* level, and with status none nothing is reported and nothing is to cancel.
C17_OnlyCandlesSinceEntry ==
    ScanReturned =>
        /\ \A other \in SameSinceEntry(call.pos, call.candles) :
               ScanFunction(call.pos, other) = ret.value
        /\ ret.value.should_close => Crossings(call.pos, call.candles) # {}
        /\ call.pos.status = "none" =>
               ret.value = (IF call.fn = "check_stop_target" THEN NoHit ELSE PaperNoHit)

\* a candle older than the entry crosses the target, no later one crosses a
\* level, and no close is reported
C17_Witness ==
    /\ ScanReturned
    /\ call.pos.status = "long" /\ call.pos.entry_time = 2
    /\ TargetCrossed(call.pos, call.candles[1])
    /\ StopCrossed(call.pos, call.candles[2])
    /\ ~ret.value.should_close

\* the position with the levels of the signal that opened it
WithSignalLevels(td) == PositionAfterOpen(td, TRUE, TRUE)

\* C18 as stated: for a position opened on a signal, whatever became of its
\* stop and take-profit orders, check_stop_target reports should_close when
\* a candle since the entry crosses the stop or the target of that signal.
C18_ScannerIndependentOfOrders ==
    (ret # NoCall /\ ret.fn = "open_then_scan") =>
        (Crossings(WithSignalLevels(call.td), call.candles) # {} => ret.value.should_close)

\* manage_positions has handled, from NONE, a buy or sell signal that passes
\* validate_trade_levels
FromNoneValid ==
    /\ pc = "finish" /\ current_status = "none" /\ ~scan.should_close
    /\ trade_data.action \in {"buy", "sell"}
    /\ validate_trade_levels(trade_data, current_price).valid

SignalStatus == IF trade_data.action = "buy" THEN "long" ELSE "short"

\* C19 as stated: from NONE a buy (sell) signal that passes validation ends
\* the run with the stored status long (short).
C19_ValidSignalOpens ==
    FromNoneValid => mem.current_position.status = SignalStatus

\* positions of the calls of this run that match op and arg
Calls(op, arg) == { i \in DOMAIN log : log[i].op = op /\ log[i].arg = arg }

\* C19 amended: from NONE a buy (sell) signal that passes validation is
\* still dropped by the volume filter, with a result that says so and
\* without any order call; otherwise the run first requests the cancellation
\* of all resting orders, then submits the entry, and if the broker accepts
\* the entry it attempts the stop and the take-profit and ends with the
\* stored status long (short); if the broker rejects the entry the stored
\* position stays none.
C19_ValidSignalOpensPastVolume ==
    FromNoneValid =>
        IF "volume_low" \in Last(trade_results).tags
        THEN /\ Calls("cancel_all_open_orders", "open") = {}
             /\ \A i \in DOMAIN log : log[i].op # "place_order"
             /\ mem.current_position.status = "none"
        ELSE \E c \in Calls("cancel_all_open_orders", "open"),
                e \in Calls("place_order", "entry") :
               /\ c + 1 = e
               /\ Calls("place_order", "entry") = {e}
               /\ IF log[e].ok
                  THEN /\ Len(log) = e + 2
                       /\ log[e + 1].op = "place_order" /\ log[e + 1].arg = "stop"
                       /\ log[e + 2].op = "place_order" /\ log[e + 2].arg = "tp"
                       /\ mem.current_position.status = SignalStatus
                       /\ mem.current_position.entry_price = current_price
                  ELSE /\ Len(log) = e
                       /\ mem.current_position.status = "none"

\* a valid sell from NONE has opened a short with both protective orders
C19_Witness ==
    /\ FromNoneValid
    /\ trade_data.action = "sell"
    /\ mem.current_position.status = "short"
    /\ mem.current_position.stop_loss_order_id # Null
    /\ mem.current_position.take_profit_order_id # Null
    /\ Calls("cancel_all_open_orders", "open") # {}

\* manage_positions has handled a hold signal from NONE
FromNoneHold ==
    /\ pc = "finish" /\ current_status = "none" /\ ~scan.should_close
    /\ trade_data.action = "hold"

\* C20: from NONE with a hold signal, manage_positions places no order,
\* leaves the stored position none, and requests the cancellation of every
\* resting order of the instrument; when that request succeeded no order
\* rests.
C20_HoldFromNoneCancelsOnly ==
    FromNoneHold =>
        /\ \A i \in DOMAIN log : log[i].op # "place_order"
        /\ mem.current_position = ClearedPosition
        /\ Cardinality(Calls("cancel_all_open_orders", "open")) = 1
        /\ Last(log).op = "cancel_all_open_orders"
        /\ Last(log).ok => OpenOrderIds(orders) = {}
        /\ Last(trade_results) = Msg(TRUE, {"no_position_hold"})

\* a stray order was resting (here: cancelled by this run) and the run ends
\* flat with no order resting
C20_Witness ==
    /\ FromNoneHold
    /\ Last(log) = Ev("cancel_all_open_orders", "open", TRUE)
    /\ \E i \in DOMAIN orders : orders[i].status = "CANCELLED"
    /\ \A i \in DOMAIN orders : orders[i].status # "OPEN"
    /\ disk.current_position.status = "none"

\* manage_positions has handled, from LONG or SHORT, a signal for the other
\* direction
FlipHandled ==
    /\ pc = "finish" /\ current_status \in {"long", "short"}
    /\ trade_data.action \in {"buy", "sell"}
    /\ ~SameDirection(current_status, trade_data.action)

\* C21 as stated: from LONG with a sell signal (SHORT with a buy signal) the
\* position is closed, the opposite entry is submitted only after that close
\* and only if the signal passes validation, and if validation fails the run
\* ends with status none.
C21_FlipClosesThenOpens ==
    FlipHandled =>
        LET valid == validate_trade_levels(trade_data, current_price).valid IN
        /\ \A e \in Calls("place_order", "entry") :
             /\ valid
             /\ \E c \in Calls("place_order", "close") : c < e /\ log[c].ok
        /\ ~valid => mem.current_position.status = "none"

\* manage_positions has handled a hold signal from LONG or SHORT
HoldHandled ==
    /\ pc = "finish" /\ current_status \in {"long", "short"}
    /\ trade_data.action = "hold"

\* C22 as stated: from LONG (SHORT) with a hold signal the run ends with
\* status none.
C22_HoldCloses ==
    HoldHandled => mem.current_position.status = "none"

\* C22 amended: from LONG (SHORT) with a hold signal, manage_positions
\* submits one closing order on the opposite side and no other order; if the
\* broker accepts it the stored position is cleared to none and a position
\* with a known entry price is recorded as one trade of its type, and if the
\* broker rejects it the stored status stays as it was; a store loaded
\* without a file starts with the position none.
C22_HoldClosesIfAccepted ==
    /\ HoldHandled =>
         \E c \in Calls("place_order", "close") :
           /\ \A i \in DOMAIN log : log[i].op = "place_order" => i = c
           /\ IF log[c].ok
              THEN /\ mem.current_position = ClearedPosition
                   /\ Last(orders).kind = "close"
                   /\ Last(orders).side = ProtectSide(current_status)
                   /\ Last(trade_results).success
                   /\ "pl" \in Last(trade_results).tags =>
                        /\ Len(mem.trade_history) = Len(disk.trade_history) + 1
                        /\ Last(mem.trade_history).type = current_status
                        /\ Last(mem.trade_history).exit_price = current_price
              ELSE /\ mem.current_position.status = current_status
                   /\ ~Last(trade_results).success
    /\ diskState = "absent" =>
         load_positions(diskState, disk).current_position = ClearedPosition

\* a short that an earlier run opened and saved is closed on a hold signal
C22_Witness ==
    /\ HoldHandled
    /\ current_status = "short"
    /\ disk.current_position.status = "short"
    /\ mem.current_position.status = "none"
    /\ Len(mem.trade_history) = 1

\* manage_positions has handled, from LONG or SHORT, a signal in the
\* direction of the position
KeepHandled ==
    /\ pc = "finish" /\ current_status \in {"long", "short"}
    /\ SameDirection(current_status, trade_data.action)

\* one protective leg of a kept position: attempted exactly when the loaded
\* store had no order id for it and the signal carries its level; recorded
\* with the level when placed; otherwise as loaded
RepairedLeg(kind, id_field, level_field) ==
    LET before == disk.current_position
        pos == mem.current_position
        level == trade_data[level_field]
        tries == Calls("place_order", kind)
    IN  /\ tries # {} <=> (before[id_field] = Null /\ Truthy(level))
        /\ Cardinality(tries) <= 1
        /\ \A i \in tries :
             IF log[i].ok
             THEN /\ pos[id_field] \in DOMAIN orders
                  /\ orders[pos[id_field]].kind = kind
                  /\ orders[pos[id_field]].price = level
                  /\ orders[pos[id_field]].side =
                       (IF current_status = "long" THEN "SELL" ELSE "BUY")
                  /\ pos[level_field] = level
             ELSE /\ pos[id_field] = Null
                  /\ pos[level_field] = before[level_field]
        /\ tries = {} =>
             /\ pos[id_field] = before[id_field]
             /\ pos[level_field] = before[level_field]

\* C23: from LONG with a buy signal (SHORT with sell) the position is kept
\* with its status, entry and history, unrealized_pnl is recomputed from the
\* current price, no closing or entry order is submitted, and a stop
\* (take-profit) order is attempted exactly when no order id is recorded for
\* it and the signal carries the level, so a leg that failed in an earlier
\* run is retried and its id and level are recorded when it is placed.
C23_KeepRepairsMissingLegs ==
    KeepHandled =>
        LET pos == mem.current_position IN
        /\ pos.status = current_status
        /\ pos.entry_time = disk.current_position.entry_time
        /\ pos.entry_order_id = disk.current_position.entry_order_id
        /\ pos.unrealized_pnl =
             (IF Truthy(pos.entry_price)
              THEN ProfitLoss(current_status, pos.entry_price, current_price) ELSE 0)
        /\ mem.trade_history = disk.trade_history
        /\ \A i \in DOMAIN log :
             log[i].op = "place_order" => log[i].arg \in {"stop", "tp"}
        /\ \A i \in DOMAIN log : log[i].op # "cancel_orders"
        /\ RepairedLeg("stop", "stop_loss_order_id", "stop_loss")
        /\ RepairedLeg("tp", "take_profit_order_id", "take_profit")

\* the stop of a long failed when the position was opened; the next run keeps
\* the long, places the stop and records its id, and leaves the take-profit
\* that was recorded alone
C23_Witness ==
    /\ KeepHandled
    /\ current_status = "long"
    /\ disk.current_position.stop_loss_order_id = Null
    /\ disk.current_position.take_profit_order_id # Null
    /\ mem.current_position.stop_loss_order_id # Null
    /\ mem.current_position.take_profit_order_id = disk.current_position.take_profit_order_id
    /\ Calls("place_order", "tp") = {}

\* manage_positions has handled a buy or sell signal that
\* validate_trade_levels rejects at the current price
RejectedSignalHandled ==
    /\ pc = "finish" /\ trade_data.action \in {"buy", "sell"}
    /\ ~validate_trade_levels(trade_data, current_price).valid

\* C24 as stated: in a run whose buy or sell signal validate_trade_levels
\* rejects, no entry order and no stop or take-profit order is submitted, and
\* a rejected-signal message is among the results of the run.
C24_RejectedSignalPlacesNothing ==
    RejectedSignalHandled =>
        /\ \A i \in DOMAIN log :
             log[i].op = "place_order" => log[i].arg \notin {"entry", "stop", "tp"}
        /\ \E k \in DOMAIN trade_results : "invalid_levels" \in trade_results[k].tags

\* a call of one of the two validators has returned
ValidatorReturned ==
    /\ ret # NoCall
    /\ ret.fn \in {"validate_trade_levels", "paper_validate_trade_levels"}

\* the distance window of the validator called, in hundredths of a percent
WindowMin == IF call.fn = "validate_trade_levels" THEN MIN_DISTANCE_PERCENT ELSE 10
WindowMax == IF call.fn = "validate_trade_levels" THEN MAX_DISTANCE_PERCENT ELSE 50

\* distance as a percentage of the price lies within the window, bounds
\* included
WithinWindow(distance, price) ==
    /\ WindowMin * price <= distance * 10000
    /\ distance * 10000 <= WindowMax * price

\* C25 as stated: the validator returns valid exactly when the action is
\* hold, or both levels are present, the stop and the target distance as a
\* percentage of the price lie within the configured window (bounds
\* included), target distance / stop distance lies within 0.5 .. 3.0, and the
\* levels are on the right sides of the price (stop < price < target for buy,
\* target < price < stop for sell); price 4300, buy, stop 4285, target 4320
\* is valid under the 0.10% .. 0.50% window.
C25_ValidIffAllChecksPass ==
    ValidatorReturned =>
        LET td == call.td
            price == call.price
            stop_distance == Abs(price - td.stop_loss)
            target_distance == Abs(price - td.take_profit)
        IN  /\ ret.value.valid <=>
                 \/ td.action = "hold"
                 \/ /\ td.stop_loss # Null /\ td.take_profit # Null
                    /\ WithinWindow(stop_distance, price)
                    /\ WithinWindow(target_distance, price)
                    /\ stop_distance <= 2 * target_distance
                    /\ target_distance <= 3 * stop_distance
                    /\ td.action = "buy" => td.stop_loss < price /\ price < td.take_profit
                    /\ td.action = "sell" => td.take_profit < price /\ price < td.stop_loss
            /\ ( /\ call.fn = "paper_validate_trade_levels"
                 /\ price = 4300 /\ td = Signal("buy", 4285, 4320) ) => ret.value.valid

\* a validator has returned for a buy or sell signal whose stop is present
\* and closer to the price than the minimum distance
TightStopReturned ==
    /\ ValidatorReturned
    /\ call.td.action \in {"buy", "sell"}
    /\ call.td.stop_loss # Null
    /\ Abs(call.price - call.td.stop_loss) * 10000 < WindowMin * call.price

\* C26 as stated: a buy or sell signal whose stop is closer to the price than
\* the minimum distance fails with the stop-too-tight error for every value
\* of take_profit.
C26_TightStopWhateverTarget ==
    TightStopReturned =>
        /\ ~ret.value.valid
        /\ ret.value.error = "stop_too_tight"

\* C26 amended: a buy or sell signal whose stop is closer to the price than
\* the minimum distance is rejected for every take_profit; the error is
\* stop-too-tight for every take_profit that is present, on either side of
\* the price and at any distance, and missing-levels when take_profit is
\* absent.
C26_TightStopWhateverPresentTarget ==
    TightStopReturned =>
        /\ ~ret.value.valid
        /\ ret.value.error =
             (IF call.td.take_profit = Null THEN "missing_levels" ELSE "stop_too_tight")

\* price 4300, stop 4298, and a target that would pass every check
C26_Witness ==
    /\ TightStopReturned
    /\ call.price = 4300
    /\ call.td = Signal("buy", 4298, 4320)
    /\ ret.value.error = "stop_too_tight"

\* calls of the stop/target scan, and calls of the signal handling: a run
\* places at most one closing order, which belongs to the scan when the scan
\* reported a hit
ScanCalls ==
    { i \in DOMAIN log :
        \/ log[i].op = "cancel_orders" /\ log[i].arg = "scan"
        \/ scan.should_close /\ log[i].op = "place_order" /\ log[i].arg = "close" }

SignalCalls ==
    { i \in DOMAIN log :
        \/ log[i].op = "cancel_all_open_orders"
        \/ log[i].op = "place_order" /\ log[i].arg \in {"entry", "stop", "tp"}
        \/ ~scan.should_close /\ log[i].op = "place_order" /\ log[i].arg = "close" }

\* the reconciliation has returned before the scan starts, and the scan,
\* with the close it triggers, before the signal is handled
StepsInOrder ==
    /\ pc = "reconcile" => log = << Ev("load_positions", "none", TRUE) >>
    /\ pc \notin {"idle", "reconcile", "notify", "exit"} =>
         /\ Len(log) >= 2 /\ log[2].op = "get_position"
         /\ \A j \in DOMAIN log :
              log[j].op \in {"get_position", "get_order"} =>
                  \A i \in ScanCalls \cup SignalCalls : j < i
    /\ \A i \in ScanCalls, j \in SignalCalls : i < j
    /\ (pc = "scan" \/ (pc \in {"et_place", "et_close"} /\ et.ret = "signal")) =>
         SignalCalls = {}
    /\ pc = "scan" => ScanCalls = {}

C28_SavedBeforeNotification ==
    /\ [] ( pc \in {"notify", "exit"} =>
              /\ diskState = "ok"
              /\ disk = mem
              /\ log[1] = Ev("save_positions", "none", TRUE) )
    /\ [][ (pc = "finish" /\ pc' = "notify") =>
              disk' = WithLastSignal(mem, trade_data) ]_vars
    /\ [][ (pc \in {"notify", "exit"}) => (disk' = disk /\ diskState' = diskState) ]_vars
    /\ [] \A i, j \in DOMAIN log :
            (log[i].op = "save_positions" /\ log[j].op = "send_to_discord") => i < j

\* the notification of the second run failed; the file holds the trade the
\* reconciliation of that run recorded and the position the run opened
C28_Witness ==
    /\ pc = "exit"
    /\ Last(log) = Ev("send_to_discord", "none", FALSE)
    /\ now = 2
    /\ Len(disk.trade_history) = 1
    /\ disk.trade_history[1].note # NoNote
    /\ disk.current_position.status # "none"

\* the run dies in save_positions: the file keeps the store of the last
\* successful save
RunEndsUnsaved == pc = "finish" /\ pc' = "idle"

\* C29 as stated: a run whose state write fails has made no trading
\* decision that the persisted store does not record, i.e. it has placed no
\* order and cancelled none.
C29_NoOrderLeftUnrecorded ==
    [][ RunEndsUnsaved =>
          \A i \in DOMAIN log :
              (log[i].op \in {"place_order", "cancel_orders", "cancel_all_open_orders"}) =>
                  ~log[i].ok ]_vars

\* C30 as stated: whatever happens during a save, positions.json holds a
\* complete store, the previous one or the new one, never an empty or
\* partial one, so that the next load_positions can parse it.
C30_FileNeverPartial ==
    diskState # "partial"

\* load_positions and save_positions were called one after the other
LoadThenSaveReturned == ret # NoCall /\ ret.fn = "load_then_save"

CancelErrorNow ==
    \E i \in DOMAIN log' :
        /\ i > Len(log)
        /\ log'[i].op \in {"cancel_orders", "cancel_all_open_orders"}
        /\ ~ log'[i].ok

\* C32: a broker error while cancelling (the recorded orders in the
\* reconciliation, in the scan and after a close; the listing or the
\* cancelling of all open orders) neither ends the run nor cancels
\* anything, the file is not touched, and the store in memory is what the
\* caller makes of it whatever the cancellation answered: unchanged in the
\* scan and around cancel_all_open_orders, the closed store after a close,
\* a cleared position (with the desync trade at most) in the reconciliation.
C32_CancelErrorsSwallowed ==
    [][ CancelErrorNow =>
          /\ pc' \notin {"idle", "exit"}
          /\ orders' = orders
          /\ disk' = disk /\ diskState' = diskState
          /\ (pc \in {"scan", "cancel_all"}) => mem' = mem
          /\ (pc = "et_close") => mem' = ClosedStore(mem, et.action, et.price, now)
          /\ (pc = "reconcile") =>
                /\ mem'.current_position = ClearedPosition
                /\ Len(mem'.trade_history) \in
                     {Len(mem.trade_history), Len(mem.trade_history) + 1}
      ]_vars

\* the run has gone on to place orders after a failed cancel_all_open_orders
\* and after a failed cancellation of the recorded orders
C32_Witness ==
    /\ \E i \in Calls("cancel_all_open_orders", "open") :
         /\ ~ log[i].ok
         /\ \E j \in DOMAIN log : j > i /\ log[j].op = "place_order" /\ log[j].ok
    /\ mem.current_position.status # "none"
    /\ \E k \in DOMAIN orders : orders[k].status = "OPEN" /\ orders[k].kind = "stop"

\* cancel_all_open_orders was called twice in a row
CancelledTwice == ret # NoCall /\ ret.fn = "cancel_all_twice"

\* C33 as stated: after the second of two cancel_all_open_orders calls in a
\* row the broker's orders and the store are what they were after the first.
C33_SecondCallChangesNothing ==
    CancelledTwice =>
        /\ ret.value.second = ret.value.first
        /\ ret.value.store_second = ret.value.store_first

\* C33 amended: the store is the same after both calls; the orders after
\* the second call are those after the first whenever the first call went
\* through (listing and cancellation answered) or the broker answers both
\* calls alike; in the remaining case, a first call that failed, the second
\* cancels nothing but orders the first left resting.
C33_SecondCallChangesNothingAfterSuccess ==
    CancelledTwice =>
        /\ ret.value.store_second = ret.value.store_first
        /\ ret.value.store_first = call.store
        /\ (call.listOk1 /\ call.cancelOk1) =>
              /\ ret.value.second = ret.value.first
              /\ OpenOrderIds(ret.value.first) = {}
        /\ (call.listOk1 = call.listOk2 /\ call.cancelOk1 = call.cancelOk2) =>
              ret.value.second = ret.value.first
        /\ \A i \in DOMAIN call.orders :
              \/ ret.value.second[i] = ret.value.first[i]
              \/ /\ ret.value.first[i].status = "OPEN"
                 /\ ret.value.second[i] = [ret.value.first[i] EXCEPT !.status = "CANCELLED"]

\* two resting orders, cancelled by the first call, and a second call that
\* finds nothing to cancel
C33_Witness ==
    /\ CancelledTwice
    /\ Cardinality(OpenOrderIds(call.orders)) = 2
    /\ call.listOk1 /\ call.cancelOk1
    /\ OpenOrderIds(ret.value.first) = {}
    /\ ret.value.second = ret.value.first

\* the answer of the LLM could not be parsed and the run has taken the
\* substituted trade data as its signal
ParsingFailed == trade_data = analyze_with_llm([ format |-> "prose" ])

\* C34: an answer of the LLM that cannot be parsed gives a hold signal;
\* manage_positions takes for it the step it takes for a hold (from NONE
\* the cleanup of stray orders, from LONG or SHORT one closing order and
\* the end of manage_positions), the run places no entry, stop or
\* take-profit order, and the stored last_signal is hold.
C34_UnparsedMeansHold ==
    /\ [](/\ parse_llm_response([ format |-> "prose" ]) = NoTradeData
          /\ new_signal(analyze_with_llm([ format |-> "prose" ])) = "hold"
          /\ new_signal(parse_llm_response([ format |-> "prose" ])) = "hold"
          /\ ParsingFailed =>
               /\ ~IsOpen(et.action)
               /\ \A i \in DOMAIN log : log[i].op = "place_order" => log[i].arg = "close")
    /\ [][ (pc = "signal" /\ ParsingFailed') =>
             /\ UNCHANGED << mem, orders, trade_results, log >>
             /\ IF current_status = "none"
                THEN pc' = "cancel_all" /\ et' = NoTrade
                ELSE /\ pc' = "et_place"
                     /\ et' = [ action |-> CloseAction(current_status),
                                price |-> current_price, stop_loss |-> Null,
                                take_profit |-> Null, ret |-> "finish" ]
         ]_vars
    /\ [][ (ParsingFailed /\ pc = "finish" /\ pc' = "notify") =>
             disk'.last_signal = "hold" ]_vars

\* a run whose LLM answer could not be parsed has closed the long of an
\* earlier run and is about to save
C34_Witness ==
    /\ ParsingFailed
    /\ pc = "finish"
    /\ current_status = "long"
    /\ disk.current_position.status = "long"
    /\ Calls("place_order", "close") # {}
    /\ mem.current_position.status = "none"

\* the run has saved its store
RunSaved == pc = "notify"

\* C35: at the end of every run no recorded order id (entry, stop,
\* take-profit) refers to an order the bot has cancelled.
C35_NoRecordedIdOfCancelledOrder ==
    RunSaved =>
        \A id \in RecordedOrderIds(disk.current_position) :
            orders[id].status # "CANCELLED"

\* the counters of a store agree with its history
CountersAgree(store) ==
    LET won == { i \in DOMAIN store.trade_history : store.trade_history[i].profit_loss > 0 }
        lost == { i \in DOMAIN store.trade_history : store.trade_history[i].profit_loss <= 0 }
    IN  /\ store.total_trades = store.winning_trades + store.losing_trades
        /\ store.total_trades = Len(store.trade_history)
        /\ store.winning_trades = Cardinality(won)
        /\ store.losing_trades = Cardinality(lost)

FailedCloses == { c \in Calls("place_order", "close") : ~ log[c].ok }

\* C37: when a closing order of the run fails (the close of the scan, of a
\* flip or of a hold), the run submits no entry order after it, does not
\* call the cleanup that cancels every open order, and leaves the stored
\* position as it is for the rest of the run.
C37_NoEntryAfterFailedClose ==
    /\ [](\A c \in FailedCloses : \A i \in DOMAIN log :
             i > c => /\ ~ (log[i].op = "place_order" /\ log[i].arg = "entry")
                      /\ log[i].op # "cancel_all_open_orders")
    /\ [][ (FailedCloses # {} /\ pc' # "idle") =>
             mem'.current_position = mem.current_position ]_vars

\* the orders the broker accepted from this run: the newest ones, as many
\* as the run has accepted place_order calls
PlacedThisRun ==
    LET accepted == { i \in DOMAIN log : log[i].op = "place_order" /\ log[i].ok }
    IN  { i \in DOMAIN orders : i > Len(orders) - Cardinality(accepted) }

\* C38: a closing order the run has submitted is not cancelled by the bot in
\* the same run.
C38_CloseOrderNotCancelledInRun ==
    \A i \in PlacedThisRun :
        orders[i].kind = "close" => orders[i].status # "CANCELLED"

\* a stored position has the fields check_stop_target reads
EntryKnown(store) ==
    store.current_position.status \in {"long", "short"} =>
        /\ store.current_position.entry_price # Null
        /\ store.current_position.entry_time # Null

\* C39: in every state of the store, in memory and on disk, a position
\* with status long or short has an entry price and an entry time, so the
\* scan of check_stop_target finds an entry time to parse.
C39_OpenPositionHasEntry ==
    EntryKnown(mem) /\ EntryKnown(disk)

\* the stored levels of a position lie on the sides its direction needs
LevelsAgree(store) ==
    LET pos == store.current_position IN
    (Truthy(pos.stop_loss) /\ Truthy(pos.take_profit)) =>
        /\ pos.status = "long" => pos.stop_loss < pos.take_profit
        /\ pos.status = "short" => pos.take_profit < pos.stop_loss

\* C40: the stored protective levels agree with the stored direction, in
\* memory and on disk: stop_loss < take_profit for a long, take_profit <
\* stop_loss for a short, after an open, after the repair of a kept
\* position and after the reconciliation has written the status.
C40_LevelsAgreeWithDirection ==
    LevelsAgree(mem) /\ LevelsAgree(disk)

====
